---- MODULE Spec2Model ----
(***************************************************************************)
(* Model of the menstrual-tracker cycle prediction engine                  *)
(* (src/lib/cycle-predictions.ts, class CyclePredictionEngine and the      *)
(* useCyclePredictions wrapper), of the forecaster of the period in        *)
(* progress (class PeriodPredictionEngine) and of the usePeriodPredictions *)
(* hook (src/hooks/use-period-predictions.ts), and of the page that owns   *)
(* the period history (src/app/page.tsx, usePeriodData and the earlier     *)
(* page version with its currentPeriod merge).                             *)
(*                                                                         *)
(* Dates are calendar days (the calendar widget hands out local-midnight   *)
(* Date objects), represented as integer day numbers; addDays/subDays are  *)
(* +/- and differenceInDays is the signed difference of day numbers.       *)
(* Fractional quantities are kept exact: a rational is a record            *)
(* [num, den] with den > 0, a standard deviation is kept as its square     *)
(* (the variance), and Math.round / Math.sqrt / Math.ceil are evaluated    *)
(* exactly on those representations.                                       *)
(***************************************************************************)
EXTENDS Integers, Sequences, FiniteSets, TLC

VARIABLES
    periodHistory,   \* the caller's PeriodLog[] (argument of the constructor / hook)
    engineHistory,   \* CyclePredictionEngine.periodHistory (private, sorted copy)
    pc,              \* position of the caller ("constructed", "returned") or of the page
                     \* ("rendered", "loadEffectRan", "effectsRan", "rerendered", "mounted")
    result,          \* what the last call returned (or that it threw)
    selectedDates,   \* page state: the days picked in the logging session
    isLogging,       \* page state: a logging session is open
    editMode,        \* page state: calendar clicks delete logged days
    currentPeriod,   \* page state of the earlier page versions: days of the continued period
    localStorage,    \* the item stored under the key "periodHistory"
    queued,          \* the setPeriodHistory update of an effect, applied by the next render
    session          \* history variable: the button that opened the logging session

pageVars ==
    <<selectedDates, isLogging, editMode, currentPeriod, localStorage, queued, session>>

vars == <<periodHistory, engineHistory, pc, result,
          selectedDates, isLogging, editMode, currentPeriod, localStorage, queued, session>>

----------------------------------------------------------------------------
(* Bounds of the explored inputs *)

\* longest well-formed chronological history that is explored (two shapes of record)
MaxRecords == 8
\* longest well-formed chronological history explored with all three shapes of record
MaxVaried == 5
\* longest history of arbitrary (unordered, duplicated, malformed) records
MaxRaw == 3
\* Math.random() is explored at the values k / RandomSteps, k = 0 .. RandomSteps-1
RandomSteps == 6

\* longest array of logged days of the period in progress (sorted, distinct days)
MaxLogged == 6
\* longest array of logged days in arbitrary order, repetitions included
MaxShuffled == 3
\* largest cycleStats.averagePeriodLength handed to usePeriodPredictions
MaxTarget == 7
\* the calendar days 0 .. LastDay can be clicked (LastDay is today, later days are disabled)
LastDay == 2
\* most records the page history is grown to
MaxPageRecords == 2
\* the earlier page is explored on the days 0 .. LongLastDay, clicked in calendar order
LongLastDay == 10

(* Program constants *)
\* zero-based index of the fertile-window badge that the panels mark "(O)"
OvulationBadgeIndex == 5
DefaultCycleLength == 28
DefaultPeriodLength == 5
MaxValues == 6
RecentWindow == 6
FutureCycleCount == 6

InsufficientDataMessage == "Insufficient data for predictions. Please log at least one period."
NoHistoryMessage == "No period history available for predictions"

----------------------------------------------------------------------------
(* date-fns helpers on day numbers *)

addDays(date, amount) == date + amount
subDays(date, amount) == date - amount
differenceInDays(dateLeft, dateRight) == dateLeft - dateRight

(* Math helpers on exact representations *)

Max(a, b) == IF a >= b THEN a ELSE b
Min(a, b) == IF a <= b THEN a ELSE b

\* Math.round(num / den), den > 0: nearest integer, halves go up (also for negatives)
MathRound(num, den) == (2 * num + den) \div (2 * den)

\* Math.ceil(num / den), den > 0
MathCeil(num, den) == (num + den - 1) \div den

RECURSIVE SqrtSearch(_, _, _, _)
\* largest s in lo..hi with s*s*den <= num (lo satisfies it)
SqrtSearch(num, den, lo, hi) ==
    IF lo >= hi THEN lo
    ELSE LET mid == (lo + hi + 1) \div 2
         IN  IF mid * mid * den <= num
             THEN SqrtSearch(num, den, mid, hi)
             ELSE SqrtSearch(num, den, lo, mid - 1)

RECURSIVE SqrtUpper(_, _, _)
\* a power of two hi >= 1 with hi*hi*den > num, found by doubling
SqrtUpper(num, den, hi) ==
    IF hi * hi * den > num THEN hi ELSE SqrtUpper(num, den, 2 * hi)

\* floor(Math.sqrt(num / den)), num >= 0, den > 0
SqrtFloor(num, den) == SqrtSearch(num, den, 0, SqrtUpper(num, den, 1))

\* ceil(Math.sqrt(num / den)), num >= 0, den > 0
SqrtCeil(num, den) ==
    LET s == SqrtFloor(num, den)
    IN  IF s * s * den = num THEN s ELSE s + 1

\* Math.round(Math.sqrt(num / den)) = floor((sqrt(4 num / den) + 1) / 2)
RoundSqrt(num, den) == (SqrtFloor(4 * num, den) + 1) \div 2

----------------------------------------------------------------------------
(* The page state while only the prediction code is exercised *)

Null == [isNull |-> TRUE]

PageIdle ==
    /\ selectedDates = <<>>
    /\ isLogging = FALSE
    /\ editMode = FALSE
    /\ currentPeriod = Null
    /\ localStorage = Null
    /\ queued = Null
    /\ session = "none"

----------------------------------------------------------------------------
(* CyclePredictionEngine *)

RECURSIVE InsertByStart(_, _)
\* insertion of log behind every element whose startDate is <= log.startDate
InsertByStart(sorted, log) ==
    IF sorted = <<>> THEN <<log>>
    ELSE IF sorted[Len(sorted)].startDate <= log.startDate
         THEN Append(sorted, log)
         ELSE Append(InsertByStart(SubSeq(sorted, 1, Len(sorted) - 1), log),
                     sorted[Len(sorted)])

\* variant: the constructor keeps the caller's order
SortByStartDate_Unsorted(history) == history

RECURSIVE SortByStartDate(_)
\* [...periodHistory].sort((a, b) => a.startDate.getTime() - b.startDate.getTime())
\* Array.prototype.sort is stable: equal start dates keep their input order
SortByStartDate(history) ==
    IF history = <<>> THEN <<>>
    ELSE InsertByStart(SortByStartDate(SubSeq(history, 1, Len(history) - 1)),
                       history[Len(history)])

\* variant: values.slice(0, count), the oldest values instead of the most recent
SliceLast_First(values, count) ==
    IF Len(values) <= count THEN values
    ELSE SubSeq(values, 1, count)

\* values.slice(-count)
SliceLast(values, count) ==
    IF Len(values) <= count THEN values
    ELSE SubSeq(values, Len(values) - count + 1, Len(values))

calculateCycleLengths(history) ==
    IF Len(history) < 2 THEN <<>>
    ELSE [i \in 1..(Len(history) - 1) |->
            differenceInDays(history[i + 1].startDate, history[i].startDate)]

calculatePeriodLengths(history) ==
    [i \in 1..Len(history) |->
        differenceInDays(history[i].endDate, history[i].startDate) + 1]

RECURSIVE WeightedSum(_, _)
\* the forEach accumulation of value * weight over the first k elements, weight = index + 1
WeightedSum(recentValues, k) ==
    IF k = 0 THEN 0
    ELSE WeightedSum(recentValues, k - 1) + recentValues[k] * k

RECURSIVE TotalWeight(_)
TotalWeight(k) == IF k = 0 THEN 0 ELSE TotalWeight(k - 1) + k

\* returns the rational weightedSum / totalWeight (0 for no values)
calculateWeightedAverage(values, maxValues) ==
    IF Len(values) = 0 THEN [num |-> 0, den |-> 1]
    ELSE LET recentValues == SliceLast(values, maxValues)
         IN  [num |-> WeightedSum(recentValues, Len(recentValues)),
              den |-> TotalWeight(Len(recentValues))]

RECURSIVE SumSeq(_)
SumSeq(values) ==
    IF values = <<>> THEN 0
    ELSE SumSeq(SubSeq(values, 1, Len(values) - 1)) + values[Len(values)]

\* variant: the sample variance (division by n - 1) instead of the population variance
calculateStandardDeviation_Sample(values) ==
    IF Len(values) < 2 THEN [num |-> 0, den |-> 1]
    ELSE LET n == Len(values)
             total == SumSeq(values)
             squaredDiffs == [i \in 1..n |-> (n * values[i] - total) * (n * values[i] - total)]
         IN  [num |-> SumSeq(squaredDiffs), den |-> n * n * (n - 1)]

\* returns the variance (the square of the standard deviation) as a rational:
\* mean = total / n, squaredDiffs[i] = (n*val - total)^2 / n^2, variance = sum / n
calculateStandardDeviation(values) ==
    IF Len(values) < 2 THEN [num |-> 0, den |-> 1]
    ELSE LET n == Len(values)
             total == SumSeq(values)
             squaredDiffs == [i \in 1..n |-> (n * values[i] - total) * (n * values[i] - total)]
         IN  [num |-> SumSeq(squaredDiffs), den |-> n * n * n]

\* variant: the default is forgotten and the average is taken of whatever there is
AverageOrDefault_NoDefault(lengths, default) ==
    calculateWeightedAverage(lengths, MaxValues)

\* lengths.length > 0 ? this.calculateWeightedAverage(lengths) : default
AverageOrDefault(lengths, default) ==
    IF Len(lengths) > 0
    THEN calculateWeightedAverage(lengths, MaxValues)
    ELSE [num |-> default, den |-> 1]

\* cycleVariation is kept in tenths of a day: Math.round(sd * 10) (the code divides by 10)
analyzeCycles(history) ==
    LET cycleLengths == calculateCycleLengths(history)
        periodLengths == calculatePeriodLengths(history)
        averageCycleLength == AverageOrDefault(cycleLengths, DefaultCycleLength)
        averagePeriodLength == AverageOrDefault(periodLengths, DefaultPeriodLength)
        recentCycles == SliceLast(cycleLengths, RecentWindow)
        variance == calculateStandardDeviation(recentCycles)
        \* Math.round(Math.max(0, Math.min(100, 100 - sd * 8)))
        regularityScore == Max(0, (201 - SqrtCeil(256 * variance.num, variance.den)) \div 2)
    IN  [averageCycleLength |-> MathRound(averageCycleLength.num, averageCycleLength.den),
         averagePeriodLength |-> MathRound(averagePeriodLength.num, averagePeriodLength.den),
         cycleVariation |-> RoundSqrt(100 * variance.num, variance.den),
         regularityScore |-> regularityScore,
         totalCycles |-> Len(cycleLengths),
         recentCycles |-> Len(recentCycles)]

\* variant: the three volume bonuses are separate ifs and add up
calculateBaseConfidence_Cumulative(analysis) ==
    LET cyclesBonus ==
            (IF analysis.totalCycles >= 6 THEN 25 ELSE 0)
            + (IF analysis.totalCycles >= 3 THEN 15 ELSE 0)
            + (IF analysis.totalCycles >= 1 THEN 10 ELSE 0)
        recentBonus == IF analysis.recentCycles >= 3 THEN 10 ELSE 0
        confidence == 100 * (50 + cyclesBonus) + analysis.regularityScore * 20 + 100 * recentBonus
    IN  [num |-> Min(95 * 100, Max(30 * 100, confidence)), den |-> 100]

\* the confidence as a rational with denominator 100, clamped to [30, 95]
calculateBaseConfidence(analysis) ==
    LET cyclesBonus ==
            IF analysis.totalCycles >= 6 THEN 25
            ELSE IF analysis.totalCycles >= 3 THEN 15
            ELSE IF analysis.totalCycles >= 1 THEN 10
            ELSE 0
        recentBonus == IF analysis.recentCycles >= 3 THEN 10 ELSE 0
        confidence == 100 * (50 + cyclesBonus) + analysis.regularityScore * 20 + 100 * recentBonus
    IN  [num |-> Min(95 * 100, Max(30 * 100, confidence)), den |-> 100]

RECURSIVE PushDays(_, _, _, _)
\* for (let i = from; i < to; i++) days.push(addDays(base, i))
PushDays(days, base, i, to) ==
    IF i < to THEN PushDays(Append(days, addDays(base, i)), base, i + 1, to)
    ELSE days

RECURSIVE PushRange(_, _, _)
\* while (currentDate <= endRange) { days.push(currentDate); currentDate = addDays(currentDate, 1) }
PushRange(days, currentDate, endRange) ==
    IF currentDate <= endRange
    THEN PushRange(Append(days, currentDate), addDays(currentDate, 1), endRange)
    ELSE days

\* returns [threw |-> TRUE, error] or [threw |-> FALSE, value]
predictNextPeriod(history, analysis) ==
    IF Len(history) = 0 THEN [threw |-> TRUE, error |-> NoHistoryMessage]
    ELSE LET lastPeriod == history[Len(history)]
             baseConfidence == calculateBaseConfidence(analysis)
             variationDays == MathCeil(analysis.cycleVariation, 2 * 10)
             nextStartDate == addDays(lastPeriod.startDate, analysis.averageCycleLength)
             predictedDays == PushDays(<<>>, nextStartDate, 0, analysis.averagePeriodLength)
             startRange == subDays(nextStartDate, variationDays)
             endRange == addDays(nextStartDate, variationDays + analysis.averagePeriodLength)
         IN  [threw |-> FALSE,
              value |-> [startDate |-> nextStartDate,
                         predictedDays |-> predictedDays,
                         possibleDays |-> PushRange(<<>>, startRange, endRange),
                         confidence |-> MathRound(baseConfidence.num * 85,
                                                  baseConfidence.den * 100)]]

\* variant: the fertile window loop runs from -6 to 0
predictOvulation_EarlyWindow(nextPeriodStart, analysis, random) ==
    LET baseConfidence == calculateBaseConfidence(analysis)
        lutealPhase ==
            IF analysis.regularityScore < 70
            THEN [num |-> 13 * RandomSteps + random * 3, den |-> RandomSteps]
            ELSE [num |-> 14, den |-> 1]
        ovulationDate == subDays(nextPeriodStart, MathRound(lutealPhase.num, lutealPhase.den))
    IN  [date |-> ovulationDate,
         fertileWindow |-> PushDays(<<>>, ovulationDate, -6, 1),
         confidence |-> MathRound(baseConfidence.num * 80, baseConfidence.den * 100)]

\* variant: the luteal phase is jittered whatever the regularity score
predictOvulation_AlwaysJitter(nextPeriodStart, analysis, random) ==
    LET baseConfidence == calculateBaseConfidence(analysis)
        lutealPhase == [num |-> 13 * RandomSteps + random * 3, den |-> RandomSteps]
        ovulationDate == subDays(nextPeriodStart, MathRound(lutealPhase.num, lutealPhase.den))
    IN  [date |-> ovulationDate,
         fertileWindow |-> PushDays(<<>>, ovulationDate, -5, 2),
         confidence |-> MathRound(baseConfidence.num * 80, baseConfidence.den * 100)]

\* random is the numerator of Math.random() = random / RandomSteps
predictOvulation(nextPeriodStart, analysis, random) ==
    LET baseConfidence == calculateBaseConfidence(analysis)
        \* lutealPhase = 14, or 13 + Math.random() * 3, as a rational
        lutealPhase ==
            IF analysis.regularityScore < 70
            THEN [num |-> 13 * RandomSteps + random * 3, den |-> RandomSteps]
            ELSE [num |-> 14, den |-> 1]
        ovulationDate == subDays(nextPeriodStart, MathRound(lutealPhase.num, lutealPhase.den))
    IN  [date |-> ovulationDate,
         fertileWindow |-> PushDays(<<>>, ovulationDate, -5, 2),
         confidence |-> MathRound(baseConfidence.num * 80, baseConfidence.den * 100)]

RECURSIVE PushFutureCycles_NoFloor(_, _, _, _, _)
\* variant: the confidence decays by 5 per cycle without the minimum of 70
PushFutureCycles_NoFloor(futureCycles, currentStartDate, i, baseConfidence, analysis) ==
    IF i < FutureCycleCount
    THEN LET confidence == baseConfidence.num - i * 5 * baseConfidence.den
             endDate == addDays(currentStartDate, analysis.averagePeriodLength - 1)
         IN  PushFutureCycles_NoFloor(
                 Append(futureCycles,
                        [startDate |-> currentStartDate,
                         endDate |-> endDate,
                         confidence |-> MathRound(confidence * 75, baseConfidence.den * 100),
                         cycleNumber |-> i + 1]),
                 addDays(currentStartDate, analysis.averageCycleLength),
                 i + 1, baseConfidence, analysis)
    ELSE futureCycles

RECURSIVE PushFutureCycles(_, _, _, _, _)
\* the for loop of predictFutureCycles from iteration i on
PushFutureCycles(futureCycles, currentStartDate, i, baseConfidence, analysis) ==
    IF i < FutureCycleCount
    THEN LET confidence == Max(70 * baseConfidence.den, baseConfidence.num - i * 5 * baseConfidence.den)
             endDate == addDays(currentStartDate, analysis.averagePeriodLength - 1)
         IN  PushFutureCycles(
                 Append(futureCycles,
                        [startDate |-> currentStartDate,
                         endDate |-> endDate,
                         confidence |-> MathRound(confidence * 75, baseConfidence.den * 100),
                         cycleNumber |-> i + 1]),
                 addDays(currentStartDate, analysis.averageCycleLength),
                 i + 1, baseConfidence, analysis)
    ELSE futureCycles

\* variant: the first future cycle starts at the last logged period, not at the next one
predictFutureCycles_FromLast(history, analysis) ==
    IF Len(history) = 0 THEN <<>>
    ELSE PushFutureCycles(<<>>, history[Len(history)].startDate,
                          0, calculateBaseConfidence(analysis), analysis)

predictFutureCycles(history, analysis) ==
    IF Len(history) = 0 THEN <<>>
    ELSE PushFutureCycles(<<>>,
                          addDays(history[Len(history)].startDate, analysis.averageCycleLength),
                          0, calculateBaseConfidence(analysis), analysis)

\* variant: the empty-history guard of generatePredictions is missing
generatePredictions_NoGuard(history, random) ==
    LET analysis == analyzeCycles(history)
        nextPeriod == predictNextPeriod(history, analysis)
    IN  IF nextPeriod.threw THEN nextPeriod
        ELSE [threw |-> FALSE,
              value |-> [nextPeriod |-> nextPeriod.value,
                         ovulation |-> predictOvulation(nextPeriod.value.startDate,
                                                        analysis, random),
                         futureCycles |-> predictFutureCycles(history, analysis),
                         analysis |-> analysis]]

\* returns [threw |-> TRUE, error] or [threw |-> FALSE, value]
generatePredictions(history, random) ==
    IF Len(history) = 0 THEN [threw |-> TRUE, error |-> InsufficientDataMessage]
    ELSE LET analysis == analyzeCycles(history)
             nextPeriod == predictNextPeriod(history, analysis)
         IN  IF nextPeriod.threw THEN nextPeriod
             ELSE [threw |-> FALSE,
                   value |-> [nextPeriod |-> nextPeriod.value,
                              ovulation |-> predictOvulation(nextPeriod.value.startDate,
                                                             analysis, random),
                              futureCycles |-> predictFutureCycles(history, analysis),
                              analysis |-> analysis]]

\* variant: the flag ignores how many cycles were logged
isUnusuallyIrregular_AnyVolume(history) ==
    LET analysis == analyzeCycles(history)
    IN  analysis.regularityScore < 50

isUnusuallyIrregular(history) ==
    LET analysis == analyzeCycles(history)
    IN  analysis.regularityScore < 50 /\ analysis.totalCycles >= 3

\* variant: the cycle notes are keyed on the period length
getCycleInsights_WrongLength(history) ==
    LET analysis == analyzeCycles(history)
        logMore ==
            IF analysis.totalCycles < 3
            THEN <<"Log more cycles for more accurate predictions">> ELSE <<>>
        regularity ==
            IF analysis.regularityScore >= 80 THEN <<"Your cycles are very regular">>
            ELSE IF analysis.regularityScore >= 60 THEN <<"Your cycles are moderately regular">>
            ELSE IF analysis.regularityScore >= 40 THEN <<"Your cycles show some irregularity">>
            ELSE <<"Your cycles are quite irregular - consider consulting a healthcare provider">>
        cycleNote ==
            IF analysis.averagePeriodLength < 21 THEN <<"Your cycles are shorter than average">>
            ELSE IF analysis.averagePeriodLength > 35 THEN <<"Your cycles are longer than average">>
            ELSE <<>>
        periodNote ==
            IF analysis.averagePeriodLength > 7 THEN <<"Your periods are longer than average">>
            ELSE IF analysis.averagePeriodLength < 3 THEN <<"Your periods are shorter than average">>
            ELSE <<>>
    IN  logMore \o regularity \o cycleNote \o periodNote

getCycleInsights(history) ==
    LET analysis == analyzeCycles(history)
        logMore ==
            IF analysis.totalCycles < 3
            THEN <<"Log more cycles for more accurate predictions">> ELSE <<>>
        regularity ==
            IF analysis.regularityScore >= 80 THEN <<"Your cycles are very regular">>
            ELSE IF analysis.regularityScore >= 60 THEN <<"Your cycles are moderately regular">>
            ELSE IF analysis.regularityScore >= 40 THEN <<"Your cycles show some irregularity">>
            ELSE <<"Your cycles are quite irregular - consider consulting a healthcare provider">>
        cycleNote ==
            IF analysis.averageCycleLength < 21 THEN <<"Your cycles are shorter than average">>
            ELSE IF analysis.averageCycleLength > 35 THEN <<"Your cycles are longer than average">>
            ELSE <<>>
        periodNote ==
            IF analysis.averagePeriodLength > 7 THEN <<"Your periods are longer than average">>
            ELSE IF analysis.averagePeriodLength < 3 THEN <<"Your periods are shorter than average">>
            ELSE <<>>
    IN  logMore \o regularity \o cycleNote \o periodNote

\* try { new engine; generatePredictions; getCycleInsights; isUnusuallyIrregular } catch { ... }
\* a null predictions is [isNull |-> TRUE], a null error is the string "null"
useCyclePredictions(history, random) ==
    LET engine == SortByStartDate(history)
        predictions == generatePredictions(engine, random)
    IN  IF predictions.threw
        THEN [predictions |-> [isNull |-> TRUE], insights |-> <<>>, isIrregular |-> FALSE,
              error |-> predictions.error]
        ELSE [predictions |-> [isNull |-> FALSE, value |-> predictions.value],
              insights |-> getCycleInsights(engine),
              isIrregular |-> isUnusuallyIrregular(engine),
              error |-> "null"]

----------------------------------------------------------------------------
(* Inputs *)

\* a record is logged with one of these (cycle length, period length) shapes
Profiles ==
    { [gap |-> 20, len |-> 2], [gap |-> 28, len |-> 5], [gap |-> 37, len |-> 9] }

PeriodLog(start, end) ==
    [startDate |-> start, endDate |-> end,
     days |-> [i \in 1..(end - start + 1) |-> start + i - 1]]

\* the short and the long shape only, for the histories that outgrow the window of 6
LongProfiles ==
    { [gap |-> 20, len |-> 2], [gap |-> 37, len |-> 9] }

RECURSIVE HistoriesOfLength(_, _)
\* chronological well-formed histories with n records, the first starting on day 0
HistoriesOfLength(n, profiles) ==
    IF n = 0 THEN { <<>> }
    ELSE IF n = 1 THEN { <<PeriodLog(0, p.len - 1)>> : p \in profiles }
    ELSE { Append(h, PeriodLog(h[n - 1].startDate + p.gap,
                               h[n - 1].startDate + p.gap + p.len - 1)) :
             h \in HistoriesOfLength(n - 1, profiles), p \in profiles }

\* arbitrary records: any order, repeated start days, endDate before startDate
RawStarts == {0, 20, 48}
RawSpans == {-3, 4}
RawLogs == { PeriodLog(s, s + d) : s \in RawStarts, d \in RawSpans }

RawHistories == UNION { [1..n -> RawLogs] : n \in 0..MaxRaw }

Histories ==
    UNION { HistoriesOfLength(n, Profiles) : n \in 0..MaxVaried }
        \cup UNION { HistoriesOfLength(n, LongProfiles) : n \in 0..MaxRecords }
        \cup RawHistories

----------------------------------------------------------------------------
(* State machine *)

NoResult == [op |-> "none"]

Init ==
    /\ periodHistory \in Histories
    /\ engineHistory = SortByStartDate(periodHistory)
    /\ pc = "constructed"
    /\ result = NoResult
    /\ PageIdle

\* new CyclePredictionEngine(periodHistory)
Construct ==
    /\ pc = "returned"
    /\ engineHistory' = SortByStartDate(periodHistory)
    /\ pc' = "constructed"
    /\ result' = NoResult
    /\ UNCHANGED periodHistory
    /\ UNCHANGED pageVars

\* engine.analyzeCycles()
AnalyzeCycles ==
    /\ pc = "constructed"
    /\ result' = [op |-> "analyzeCycles", threw |-> FALSE,
                  value |-> analyzeCycles(engineHistory)]
    /\ pc' = "returned"
    /\ UNCHANGED <<periodHistory, engineHistory>>
    /\ UNCHANGED pageVars

\* engine.generatePredictions(), Math.random() being any of the explored values
GeneratePredictions ==
    /\ pc = "constructed"
    /\ \E random \in 0..(RandomSteps - 1) :
         result' = [op |-> "generatePredictions"] @@ generatePredictions(engineHistory, random)
    /\ pc' = "returned"
    /\ UNCHANGED <<periodHistory, engineHistory>>
    /\ UNCHANGED pageVars

\* engine.isUnusuallyIrregular()
IsUnusuallyIrregular ==
    /\ pc = "constructed"
    /\ result' = [op |-> "isUnusuallyIrregular", threw |-> FALSE,
                  value |-> isUnusuallyIrregular(engineHistory)]
    /\ pc' = "returned"
    /\ UNCHANGED <<periodHistory, engineHistory>>
    /\ UNCHANGED pageVars

\* engine.getCycleInsights()
GetCycleInsights ==
    /\ pc = "constructed"
    /\ result' = [op |-> "getCycleInsights", threw |-> FALSE,
                  value |-> getCycleInsights(engineHistory)]
    /\ pc' = "returned"
    /\ UNCHANGED <<periodHistory, engineHistory>>
    /\ UNCHANGED pageVars

\* useCyclePredictions(periodHistory): a render of the page
UseCyclePredictions ==
    /\ pc = "constructed"
    /\ \E random \in 0..(RandomSteps - 1) :
         result' = [op |-> "useCyclePredictions", threw |-> FALSE,
                    value |-> useCyclePredictions(periodHistory, random)]
    /\ pc' = "returned"
    /\ UNCHANGED <<periodHistory, engineHistory>>
    /\ UNCHANGED pageVars

\* this.calculateWeightedAverage(values) on the engine's cycle or period lengths
CalculateWeightedAverage ==
    /\ pc = "constructed"
    /\ \E values \in {calculateCycleLengths(engineHistory),
                       calculatePeriodLengths(engineHistory)} :
         result' = [op |-> "calculateWeightedAverage", threw |-> FALSE,
                    values |-> values,
                    value |-> calculateWeightedAverage(values, MaxValues)]
    /\ pc' = "returned"
    /\ UNCHANGED <<periodHistory, engineHistory>>
    /\ UNCHANGED pageVars

\* this.calculateBaseConfidence(analysis) on the engine's own analysis
CalculateBaseConfidence ==
    /\ pc = "constructed"
    /\ LET analysis == analyzeCycles(engineHistory)
       IN  result' = [op |-> "calculateBaseConfidence", threw |-> FALSE,
                      analysis |-> analysis,
                      value |-> calculateBaseConfidence(analysis)]
    /\ pc' = "returned"
    /\ UNCHANGED <<periodHistory, engineHistory>>
    /\ UNCHANGED pageVars

Next ==
    \/ Construct
    \/ AnalyzeCycles
    \/ GeneratePredictions
    \/ IsUnusuallyIrregular
    \/ GetCycleInsights
    \/ UseCyclePredictions
    \/ CalculateWeightedAverage
    \/ CalculateBaseConfidence

Spec == Init /\ [][Next]_vars

----------------------------------------------------------------------------
(* Repeated calls of the engine *)

\* well-formed records two of which start on the same day
TiedHistories ==
    { <<PeriodLog(0, 1), PeriodLog(0, 8)>>,
      <<PeriodLog(0, 1), PeriodLog(0, 8), PeriodLog(28, 32)>> }

Reverse(history) == [i \in 1..Len(history) |-> history[Len(history) + 1 - i]]

Rotate(history) ==
    IF Len(history) < 2 THEN history
    ELSE Append(SubSeq(history, 2, Len(history)), history[1])

\* the input orders in which the same records are handed to a second engine
Reorderings(history) == {history, Reverse(history), Rotate(history)}

RepeatInit ==
    /\ periodHistory \in Histories \cup TiedHistories
    /\ engineHistory = SortByStartDate(periodHistory)
    /\ pc = "constructed"
    /\ result = NoResult
    /\ PageIdle

\* engine.analyzeCycles() and new CyclePredictionEngine(reordered).analyzeCycles()
AnalyzeCyclesTwice ==
    /\ pc = "constructed"
    /\ \E reordered \in Reorderings(periodHistory) :
         result' = [op |-> "analyzeCyclesTwice",
                    reordered |-> reordered,
                    first |-> analyzeCycles(engineHistory),
                    second |-> analyzeCycles(SortByStartDate(reordered))]
    /\ pc' = "returned"
    /\ UNCHANGED <<periodHistory, engineHistory>>
    /\ UNCHANGED pageVars

\* engine.generatePredictions() called twice, each call with its own Math.random()
GeneratePredictionsTwice ==
    /\ pc = "constructed"
    /\ \E random1, random2 \in 0..(RandomSteps - 1) :
         result' = [op |-> "generatePredictionsTwice",
                    first |-> generatePredictions(engineHistory, random1),
                    second |-> generatePredictions(engineHistory, random2)]
    /\ pc' = "returned"
    /\ UNCHANGED <<periodHistory, engineHistory>>
    /\ UNCHANGED pageVars

RepeatNext ==
    \/ AnalyzeCyclesTwice
    \/ GeneratePredictionsTwice

RepeatSpec == RepeatInit /\ [][RepeatNext]_vars

----------------------------------------------------------------------------
(* PeriodPredictionEngine (the forecaster of the period in progress) *)

CompleteDuration == 5
HookCycleCount == 6
HookLutealPhaseLength == 14

\* dates.some(date => isSameDay(date, day)); also the year / month / date comparison
Includes(dates, day) == \E i \in 1..Len(dates) : dates[i] = day

RECURSIVE InsertByTime(_, _)
InsertByTime(sorted, date) ==
    IF sorted = <<>> THEN <<date>>
    ELSE IF sorted[Len(sorted)] <= date
         THEN Append(sorted, date)
         ELSE Append(InsertByTime(SubSeq(sorted, 1, Len(sorted) - 1), date),
                     sorted[Len(sorted)])

\* variant: the days are left in the order in which they were logged
SortDates_InputOrder(dates) == dates

RECURSIVE SortDates(_)
\* [...dates].sort((a, b) => a.getTime() - b.getTime())
SortDates(dates) ==
    IF dates = <<>> THEN <<>>
    ELSE InsertByTime(SortDates(SubSeq(dates, 1, Len(dates) - 1)), dates[Len(dates)])

\* days.filter(date => !logged.some(loggedDate => isSameDay(date, loggedDate)))
FilterLogged(days, logged) ==
    LET NotLogged(date) == ~Includes(logged, date)
    IN  SelectSeq(days, NotLogged)

EmptyPrediction ==
    [possibleDays |-> <<>>, predictedDays |-> <<>>, isComplete |-> FALSE,
     confidence |-> [possible |-> 0, predicted |-> 0]]

CompletePrediction ==
    [possibleDays |-> <<>>, predictedDays |-> <<>>, isComplete |-> TRUE,
     confidence |-> [possible |-> 0, predicted |-> 0]]

\* variant: the number of logged days is looked at before today's date
predictRemainingDays_CountFirst(currentPeriodDays, today) ==
    IF Len(currentPeriodDays) = 0 THEN EmptyPrediction
    ELSE IF Len(currentPeriodDays) >= CompleteDuration THEN CompletePrediction
    ELSE IF ~Includes(currentPeriodDays, today) THEN EmptyPrediction
    ELSE LET sortedDays == SortDates(currentPeriodDays)
             loggedDaysCount == Len(sortedDays)
             lastDay == sortedDays[Len(sortedDays)]
             possibleDays ==
                 IF loggedDaysCount = 1 THEN PushDays(<<>>, lastDay, 1, 4)
                 ELSE IF loggedDaysCount = 2 THEN PushDays(<<>>, lastDay, 1, 3)
                 ELSE IF loggedDaysCount = 3 THEN PushDays(<<>>, lastDay, 1, 3)
                 ELSE <<addDays(lastDay, 1)>>
             predictedDays ==
                 IF loggedDaysCount = 1 THEN <<addDays(lastDay, 4)>>
                 ELSE IF loggedDaysCount = 2 THEN <<addDays(lastDay, 3)>>
                 ELSE <<>>
         IN  [possibleDays |-> FilterLogged(possibleDays, currentPeriodDays),
              predictedDays |-> FilterLogged(predictedDays, currentPeriodDays),
              isComplete |-> loggedDaysCount >= CompleteDuration,
              confidence |-> [possible |-> 85, predicted |-> 75]]

\* variant: a period counts as complete only from the sixth logged day
predictRemainingDays_SixToComplete(currentPeriodDays, today) ==
    IF Len(currentPeriodDays) = 0 THEN EmptyPrediction
    ELSE IF ~Includes(currentPeriodDays, today) THEN EmptyPrediction
    ELSE LET sortedDays == SortDates(currentPeriodDays)
             loggedDaysCount == Len(sortedDays)
             lastDay == sortedDays[Len(sortedDays)]
         IN  IF loggedDaysCount > CompleteDuration THEN CompletePrediction
             ELSE LET possibleDays ==
                          IF loggedDaysCount = 1 THEN PushDays(<<>>, lastDay, 1, 4)
                          ELSE IF loggedDaysCount = 2 THEN PushDays(<<>>, lastDay, 1, 3)
                          ELSE IF loggedDaysCount = 3 THEN PushDays(<<>>, lastDay, 1, 3)
                          ELSE IF loggedDaysCount = 4 THEN <<addDays(lastDay, 1)>>
                          ELSE <<>>
                      predictedDays ==
                          IF loggedDaysCount = 1 THEN <<addDays(lastDay, 4)>>
                          ELSE IF loggedDaysCount = 2 THEN <<addDays(lastDay, 3)>>
                          ELSE <<>>
                  IN  [possibleDays |-> FilterLogged(possibleDays, currentPeriodDays),
                       predictedDays |-> FilterLogged(predictedDays, currentPeriodDays),
                       isComplete |-> loggedDaysCount > CompleteDuration,
                       confidence |-> [possible |-> 85, predicted |-> 75]]

\* predictRemainingDays(currentPeriodDays), with today = new Date() made a parameter
predictRemainingDays(currentPeriodDays, today) ==
    IF Len(currentPeriodDays) = 0 THEN EmptyPrediction
    ELSE IF ~Includes(currentPeriodDays, today) THEN EmptyPrediction
    ELSE LET sortedDays == SortDates(currentPeriodDays)
             loggedDaysCount == Len(sortedDays)
             lastDay == sortedDays[Len(sortedDays)]
         IN  IF loggedDaysCount >= CompleteDuration THEN CompletePrediction
             ELSE LET possibleDays ==
                          IF loggedDaysCount = 1 THEN PushDays(<<>>, lastDay, 1, 4)
                          ELSE IF loggedDaysCount = 2 THEN PushDays(<<>>, lastDay, 1, 3)
                          ELSE IF loggedDaysCount = 3 THEN PushDays(<<>>, lastDay, 1, 3)
                          ELSE IF loggedDaysCount = 4 THEN <<addDays(lastDay, 1)>>
                          ELSE <<>>
                      predictedDays ==
                          IF loggedDaysCount = 1 THEN <<addDays(lastDay, 4)>>
                          ELSE IF loggedDaysCount = 2 THEN <<addDays(lastDay, 3)>>
                          ELSE <<>>
                  IN  [possibleDays |-> FilterLogged(possibleDays, currentPeriodDays),
                       predictedDays |-> FilterLogged(predictedDays, currentPeriodDays),
                       isComplete |-> loggedDaysCount >= CompleteDuration,
                       confidence |-> [possible |-> 85, predicted |-> 75]]

\* `${count} day${count !== 1 ? "s" : ""}`
CountDays(count) == ToString(count) \o (IF count # 1 THEN " days" ELSE " day")

\* `${count} more day${count !== 1 ? "s" : ""}`
CountMoreDays(count) == ToString(count) \o (IF count # 1 THEN " more days" ELSE " more day")

getPredictionSummary(currentPeriodDays, today) ==
    LET prediction == predictRemainingDays(currentPeriodDays, today)
        loggedCount == Len(currentPeriodDays)
        possibleCount == Len(prediction.possibleDays)
        predictedCount == Len(prediction.predictedDays)
        totalPredicted == possibleCount + predictedCount
        summary == CountDays(loggedCount) \o " logged. "
    IN  IF prediction.isComplete THEN "Period appears complete (5+ days logged)"
        ELSE IF totalPredicted = 0 THEN "Period may be ending soon"
        ELSE IF possibleCount > 0 /\ predictedCount > 0
             THEN summary \o CountMoreDays(possibleCount) \o " likely, "
                          \o ToString(predictedCount) \o " possible."
        ELSE IF possibleCount > 0
             THEN summary \o CountMoreDays(possibleCount) \o " likely."
        ELSE IF predictedCount > 0
             THEN summary \o CountMoreDays(predictedCount) \o " possible."
        ELSE summary

isPredictedDay(date, currentPeriodDays, today) ==
    LET prediction == predictRemainingDays(currentPeriodDays, today)
    IN  IF Includes(prediction.possibleDays, date) THEN "possible"
        ELSE IF Includes(prediction.predictedDays, date) THEN "predicted"
        ELSE "null"

----------------------------------------------------------------------------
(* usePeriodPredictions (src/hooks/use-period-predictions.ts) *)

RECURSIVE PushUnselected(_, _, _, _, _)
\* for (i = from; i <= to; i++) { nextDay = addDays(lastDay, i);
\*     if (!selectedDates.some(date => isSameDay(date, nextDay))) days.push(nextDay) }
PushUnselected(days, lastDay, i, to, selected) ==
    IF i <= to
    THEN LET nextDay == addDays(lastDay, i)
         IN  PushUnselected(IF ~Includes(selected, nextDay)
                            THEN Append(days, nextDay) ELSE days,
                            lastDay, i + 1, to, selected)
    ELSE days

NoCurrentPeriodPredictions == [possibleDays |-> <<>>, predictedDays |-> <<>>]

\* variant: at most two of the remaining days are possible
currentPeriodPredictions_TwoPossible(selected, logging, cycleStats, today) ==
    IF ~(logging /\ Len(selected) > 0) THEN NoCurrentPeriodPredictions
    ELSE IF ~(Includes(selected, today) /\ Len(selected) < 5)
    THEN NoCurrentPeriodPredictions
    ELSE LET targetPeriodLength == cycleStats.averagePeriodLength
             daysLogged == Len(selected)
             remainingDays == Max(0, targetPeriodLength - daysLogged)
         IN  IF ~(remainingDays > 0) THEN NoCurrentPeriodPredictions
             ELSE LET sortedDates == SortDates(selected)
                      lastDay == sortedDates[Len(sortedDates)]
                      possibleCount == Min(2, remainingDays)
                      predictedCount == remainingDays - possibleCount
                  IN  [possibleDays |->
                           PushUnselected(<<>>, lastDay, 1, possibleCount, selected),
                       predictedDays |->
                           IF remainingDays > possibleCount
                           THEN PushUnselected(<<>>, lastDay, possibleCount + 1,
                                               possibleCount + predictedCount, selected)
                           ELSE <<>>]

\* variant: the predicted offsets start at possibleCount instead of possibleCount + 1
currentPeriodPredictions_Overlap(selected, logging, cycleStats, today) ==
    IF ~(logging /\ Len(selected) > 0) THEN NoCurrentPeriodPredictions
    ELSE IF ~(Includes(selected, today) /\ Len(selected) < 5)
    THEN NoCurrentPeriodPredictions
    ELSE LET targetPeriodLength == cycleStats.averagePeriodLength
             daysLogged == Len(selected)
             remainingDays == Max(0, targetPeriodLength - daysLogged)
         IN  IF ~(remainingDays > 0) THEN NoCurrentPeriodPredictions
             ELSE LET sortedDates == SortDates(selected)
                      lastDay == sortedDates[Len(sortedDates)]
                      possibleCount == Min(3, remainingDays)
                      predictedCount == remainingDays - possibleCount
                  IN  [possibleDays |->
                           PushUnselected(<<>>, lastDay, 1, possibleCount, selected),
                       predictedDays |->
                           IF remainingDays > possibleCount
                           THEN PushUnselected(<<>>, lastDay, possibleCount,
                                               possibleCount + predictedCount, selected)
                           ELSE <<>>]

\* part 1 of the hook: possible and predicted days of the period being logged
currentPeriodPredictions(selected, logging, cycleStats, today) ==
    IF ~(logging /\ Len(selected) > 0) THEN NoCurrentPeriodPredictions
    ELSE IF ~(Includes(selected, today) /\ Len(selected) < 5)
    THEN NoCurrentPeriodPredictions
    ELSE LET targetPeriodLength == cycleStats.averagePeriodLength
             daysLogged == Len(selected)
             remainingDays == Max(0, targetPeriodLength - daysLogged)
         IN  IF ~(remainingDays > 0) THEN NoCurrentPeriodPredictions
             ELSE LET sortedDates == SortDates(selected)
                      lastDay == sortedDates[Len(sortedDates)]
                      possibleCount == Min(3, remainingDays)
                      predictedCount == remainingDays - possibleCount
                  IN  [possibleDays |->
                           PushUnselected(<<>>, lastDay, 1, possibleCount, selected),
                       predictedDays |->
                           IF remainingDays > possibleCount
                           THEN PushUnselected(<<>>, lastDay, possibleCount + 1,
                                               possibleCount + predictedCount, selected)
                           ELSE <<>>]

NoFuturePeriods == [futurePeriods |-> <<>>, ovulationDates |-> <<>>, fertileWindows |-> <<>>]

RECURSIVE PushFuturePeriods(_, _, _, _, _)
\* the loop over cycle = 1..6; random[cycle] / RandomSteps is the cycle's Math.random(),
\* cycleStats.cycleVariation is in tenths of a day, so
\* variation = random * cycleVariation - cycleVariation / 2
\*           = (2 * random[cycle] * tenths - RandomSteps * tenths) / (20 * RandomSteps)
PushFuturePeriods(acc, currentPeriodStart, cycle, cycleStats, random) ==
    IF cycle <= HookCycleCount
    THEN LET tenths == cycleStats.cycleVariation
             adjustedCycleStart ==
                 addDays(currentPeriodStart,
                         MathRound(2 * random[cycle] * tenths - RandomSteps * tenths,
                                   20 * RandomSteps))
             periodDays == PushDays(<<>>, adjustedCycleStart, 0, cycleStats.averagePeriodLength)
             ovulationDate == addDays(adjustedCycleStart, -HookLutealPhaseLength)
         IN  PushFuturePeriods(
                 [futurePeriods |-> Append(acc.futurePeriods,
                                           [startDate |-> adjustedCycleStart,
                                            days |-> periodDays,
                                            cycleNumber |-> cycle]),
                  ovulationDates |-> Append(acc.ovulationDates, ovulationDate),
                  fertileWindows |-> acc.fertileWindows \o PushDays(<<>>, ovulationDate, -5, 2)],
                 addDays(adjustedCycleStart, cycleStats.averageCycleLength),
                 cycle + 1, cycleStats, random)
    ELSE acc

\* part 2 of the hook: future periods, ovulation dates and fertile windows
futurePeriodPredictions(history, cycleStats, random) ==
    IF Len(history) > 0
    THEN LET lastPeriod == history[Len(history)]
         IN  PushFuturePeriods(NoFuturePeriods,
                               addDays(lastPeriod.startDate, cycleStats.averageCycleLength),
                               1, cycleStats, random)
    ELSE NoFuturePeriods

\* usePeriodPredictions(periodHistory, selectedDates, isLogging, cycleStats),
\* with today = startOfDay(new Date()) and the Math.random() draws made parameters
usePeriodPredictions(history, selected, logging, cycleStats, today, random) ==
    LET current == currentPeriodPredictions(selected, logging, cycleStats, today)
        future == futurePeriodPredictions(history, cycleStats, random)
    IN  [possibleDays |-> current.possibleDays,
         predictedDays |-> current.predictedDays,
         futurePeriods |-> future.futurePeriods,
         ovulationDates |-> future.ovulationDates,
         fertileWindows |-> future.fertileWindows]

----------------------------------------------------------------------------
(* Inputs of the forecasters *)

RECURSIVE Ascending(_)
\* the days of a set in chronological order
Ascending(days) ==
    IF days = {} THEN <<>>
    ELSE LET last == CHOOSE d \in days : \A e \in days : e <= d
         IN  Append(Ascending(days \ {last}), last)

\* logged days: every non-empty choice of days 0 .. MaxLogged - 1 in chronological order,
\* and every array of up to MaxShuffled days out of 0 .. 2 in any order
LoggedDays ==
    { Ascending(days) : days \in (SUBSET (0..(MaxLogged - 1))) \ {{}} }
        \cup UNION { [1..n -> 0..2] : n \in 0..MaxShuffled }

\* the calendar day on which the forecaster runs
Todays == {2, 4}

\* cycleStats of a short history (usePeriodData defaults) with every target length
CycleStatsInputs ==
    { [averageCycleLength |-> 28, averagePeriodLength |-> target,
       cycleVariation |-> 20, totalCycles |-> 0] : target \in -1..MaxTarget }

\* the six Math.random() draws of one call: every rotation of 0 .. RandomSteps - 1
RandomDraws ==
    { [cycle \in 1..HookCycleCount |-> (first + cycle) % RandomSteps] :
          first \in 0..(RandomSteps - 1) }

\* periodHistory handed to the hook, in insertion order
HookHistories ==
    { <<>>, <<PeriodLog(0, 4)>>, <<PeriodLog(28, 32), PeriodLog(0, 4)>> }

----------------------------------------------------------------------------
(* State machine of the forecasters *)

ForecastInit ==
    /\ periodHistory \in HookHistories
    /\ engineHistory = <<>>
    /\ pc = "constructed"
    /\ result = NoResult
    /\ PageIdle

\* periodPredictionEngine.predictRemainingDays(currentPeriodDays)
PredictRemainingDays ==
    /\ pc = "constructed"
    /\ \E currentPeriodDays \in LoggedDays, today \in Todays :
         result' = [op |-> "predictRemainingDays",
                    currentPeriodDays |-> currentPeriodDays, today |-> today,
                    value |-> predictRemainingDays(currentPeriodDays, today)]
    /\ pc' = "returned"
    /\ UNCHANGED <<periodHistory, engineHistory>>
    /\ UNCHANGED pageVars

\* periodPredictionEngine.getPredictionSummary(currentPeriodDays)
GetPredictionSummary ==
    /\ pc = "constructed"
    /\ \E currentPeriodDays \in LoggedDays, today \in Todays :
         result' = [op |-> "getPredictionSummary",
                    currentPeriodDays |-> currentPeriodDays, today |-> today,
                    value |-> getPredictionSummary(currentPeriodDays, today)]
    /\ pc' = "returned"
    /\ UNCHANGED <<periodHistory, engineHistory>>
    /\ UNCHANGED pageVars

\* periodPredictionEngine.isPredictedDay(date, currentPeriodDays)
IsPredictedDay ==
    /\ pc = "constructed"
    /\ \E currentPeriodDays \in LoggedDays, today \in Todays, date \in 0..(MaxLogged + 4) :
         result' = [op |-> "isPredictedDay", date |-> date,
                    currentPeriodDays |-> currentPeriodDays, today |-> today,
                    value |-> isPredictedDay(date, currentPeriodDays, today)]
    /\ pc' = "returned"
    /\ UNCHANGED <<periodHistory, engineHistory>>
    /\ UNCHANGED pageVars

\* usePeriodPredictions(periodHistory, selectedDates, isLogging, cycleStats);
\* Math.random() is drawn only when the history is not empty
UsePeriodPredictions ==
    /\ pc = "constructed"
    /\ \E selected \in LoggedDays, logging \in BOOLEAN, today \in Todays,
          cycleStats \in CycleStatsInputs,
          random \in (IF Len(periodHistory) > 0 THEN RandomDraws ELSE {<<>>}) :
         result' = [op |-> "usePeriodPredictions",
                    selectedDates |-> selected, isLogging |-> logging,
                    cycleStats |-> cycleStats, today |-> today,
                    value |-> usePeriodPredictions(periodHistory, selected, logging,
                                                   cycleStats, today, random)]
    /\ pc' = "returned"
    /\ UNCHANGED <<periodHistory, engineHistory>>
    /\ UNCHANGED pageVars

ForecastNext ==
    \/ PredictRemainingDays
    \/ GetPredictionSummary
    \/ IsPredictedDay
    \/ UsePeriodPredictions

ForecastSpec == ForecastInit /\ [][ForecastNext]_vars

----------------------------------------------------------------------------
(* Properties *)

Returned(op) == pc = "returned" /\ result.op = op

WellFormed(history) ==
    \A i \in 1..Len(history) : history[i].startDate <= history[i].endDate

DistinctStarts(history) ==
    \A i, j \in 1..Len(history) : i # j => history[i].startDate # history[j].startDate

\* C1: generatePredictions fails, with the insufficient-data error, exactly when the
\* history is empty, and returns a result for every non-empty history; the
\* useCyclePredictions wrapper never throws and turns the failure into the value
\* (predictions null, insights empty, isIrregular false, error = the message).
ThmC1 ==
    /\ Returned("generatePredictions") =>
          /\ result.threw <=> (Len(periodHistory) = 0)
          /\ result.threw => result.error = InsufficientDataMessage
    /\ Returned("useCyclePredictions") =>
          /\ ~result.threw
          /\ IF Len(periodHistory) = 0
             THEN result.value = [predictions |-> [isNull |-> TRUE], insights |-> <<>>,
                                  isIrregular |-> FALSE,
                                  error |-> InsufficientDataMessage]
             ELSE /\ ~result.value.predictions.isNull
                  /\ result.value.error = "null"

WitC1 ==
    /\ Returned("useCyclePredictions")
    /\ Len(periodHistory) = 0
    /\ result.value.predictions.isNull
    /\ result.value.error = InsufficientDataMessage

\* C2: analyzeCycles, isUnusuallyIrregular and getCycleInsights never fail; on an empty
\* history analyzeCycles returns averageCycleLength 28, averagePeriodLength 5 and
\* totalCycles 0, on a single-record history averageCycleLength 28 and totalCycles 0.
ThmC2 ==
    /\ (Returned("analyzeCycles") \/ Returned("isUnusuallyIrregular")
            \/ Returned("getCycleInsights")) => ~result.threw
    /\ (Returned("analyzeCycles") /\ Len(periodHistory) = 0) =>
          /\ result.value.averageCycleLength = 28
          /\ result.value.averagePeriodLength = 5
          /\ result.value.totalCycles = 0
    /\ (Returned("analyzeCycles") /\ Len(periodHistory) = 1) =>
          /\ result.value.averageCycleLength = 28
          /\ result.value.totalCycles = 0

WitC2 ==
    /\ Returned("analyzeCycles")
    /\ Len(periodHistory) = 0
    /\ result.value.averagePeriodLength = 5

\* C3: for a non-empty history whose records have startDate <= endDate and pairwise
\* distinct start days, analyzeCycles returns positive integer averages, an integer
\* regularityScore in 0..100 and totalCycles = number of records - 1.
ThmC3 ==
    (/\ Returned("analyzeCycles")
     /\ Len(periodHistory) > 0
     /\ WellFormed(periodHistory)
     /\ DistinctStarts(periodHistory)) =>
        /\ result.value.averageCycleLength \in Nat \ {0}
        /\ result.value.averagePeriodLength \in Nat \ {0}
        /\ result.value.regularityScore \in 0..100
        /\ result.value.totalCycles = Len(periodHistory) - 1

\* an unordered well-formed history that has been analyzed
WitC3 ==
    /\ Returned("analyzeCycles")
    /\ Len(periodHistory) = 3
    /\ WellFormed(periodHistory)
    /\ DistinctStarts(periodHistory)
    /\ periodHistory[1].startDate > periodHistory[2].startDate
    /\ result.value.totalCycles = 2

Malformed(history) == ~WellFormed(history) \/ ~DistinctStarts(history)

\* C4: on a history with a malformed record (endDate before startDate, or two records
\* with the same start day) analyzeCycles never reports an average period or cycle
\* length that is zero or negative and generatePredictions never returns an empty
\* predictedDays list.
CexC4 ==
    /\ (Returned("analyzeCycles") /\ Malformed(periodHistory)) =>
          /\ result.value.averagePeriodLength > 0
          /\ result.value.averageCycleLength > 0
    /\ (Returned("generatePredictions") /\ Malformed(periodHistory) /\ ~result.threw) =>
          /\ result.value.analysis.averagePeriodLength > 0
          /\ result.value.analysis.averageCycleLength > 0
          /\ result.value.nextPeriod.predictedDays # <<>>

----------------------------------------------------------------------------
(* The statistics restated on the engine's history, for comparison *)

RECURSIVE SumOf(_, _)
\* sum of f[i] over the finite set S of indices
SumOf(f, S) ==
    IF S = {} THEN 0
    ELSE LET i == CHOOSE x \in S : TRUE
         IN  f[i] + SumOf(f, S \ {i})

\* number of cycle-length samples of the engine's history and size of the window of 6
NumCycles == IF Len(engineHistory) = 0 THEN 0 ELSE Len(engineHistory) - 1
CycleWindow == IF NumCycles < 6 THEN NumCycles ELSE 6
PeriodWindow == IF Len(engineHistory) < 6 THEN Len(engineHistory) ELSE 6

\* j-th cycle length of the window (j = 1 is the oldest), j-th period length of the window
WindowCycle(j) ==
    LET i == NumCycles - CycleWindow + j
    IN  engineHistory[i + 1].startDate - engineHistory[i].startDate
WindowPeriod(j) ==
    LET i == Len(engineHistory) - PeriodWindow + j
    IN  engineHistory[i].endDate - engineHistory[i].startDate + 1

\* r is num / den rounded to the nearest integer, halves up (den > 0)
IsRounded(r, num, den) == 2 * den * r <= 2 * num + den /\ 2 * num + den < 2 * den * (r + 1)

\* C5: averageCycleLength (averagePeriodLength) is the rounded weighted mean of the last
\* at most 6 cycle (period) lengths with weights 1 (oldest of the window) .. k (most
\* recent); the weighted average of no values is 0, of a constant sequence the constant.
ThmC5 ==
    /\ (Returned("analyzeCycles") /\ NumCycles > 0) =>
          IsRounded(result.value.averageCycleLength,
                    SumOf([j \in 1..CycleWindow |-> j * WindowCycle(j)], 1..CycleWindow),
                    (CycleWindow * (CycleWindow + 1)) \div 2)
    /\ (Returned("analyzeCycles") /\ Len(engineHistory) > 0) =>
          IsRounded(result.value.averagePeriodLength,
                    SumOf([j \in 1..PeriodWindow |-> j * WindowPeriod(j)], 1..PeriodWindow),
                    (PeriodWindow * (PeriodWindow + 1)) \div 2)
    /\ Returned("calculateWeightedAverage") =>
          /\ result.values = <<>> => result.value.num = 0
          /\ (result.values # <<>>
                /\ \A i \in 1..Len(result.values) : result.values[i] = result.values[1])
                => result.value.num = result.values[1] * result.value.den

\* more samples than the window holds, and the dropped oldest cycle differs from the rest
WitC5 ==
    /\ Returned("analyzeCycles")
    /\ NumCycles > 6
    /\ engineHistory[2].startDate - engineHistory[1].startDate = 37
    /\ \A j \in 1..CycleWindow : WindowCycle(j) = 20
    /\ result.value.averageCycleLength = 20

\* the variance of the window of cycle lengths is VarianceNum / (n * n), n = CycleWindow
VarianceNum ==
    IF CycleWindow < 2 THEN 0
    ELSE LET lengths == [j \in 1..CycleWindow |-> WindowCycle(j)]
             squares == [j \in 1..CycleWindow |-> WindowCycle(j) * WindowCycle(j)]
             total == SumOf(lengths, 1..CycleWindow)
         IN  CycleWindow * SumOf(squares, 1..CycleWindow) - total * total
VarianceDen == IF CycleWindow < 2 THEN 1 ELSE CycleWindow * CycleWindow

\* clamp(round(100 - cycleVariation * 8), 0, 100) from a cycleVariation given in tenths
ScoreOfReported(tenths) ==
    LET rounded == (2 * (1000 - 8 * tenths) + 10) \div 20
    IN  IF rounded < 0 THEN 0 ELSE IF rounded > 100 THEN 100 ELSE rounded

\* C6 as stated: regularityScore = clamp(round(100 - cycleVariation * 8), 0, 100) for the
\* cycleVariation that the same result reports (rounded to one decimal).
CexC6 ==
    Returned("analyzeCycles") =>
        result.value.regularityScore = ScoreOfReported(result.value.cycleVariation)

\* C6 amended: regularityScore = clamp(round(100 - sd * 8), 0, 100) for the unrounded
\* population standard deviation sd of the last at most 6 cycle lengths; cycleVariation
\* is sd rounded to one decimal, and the score is within 1 of the value computed from it.
ThmC6 ==
    Returned("analyzeCycles") =>
        LET score == result.value.regularityScore
            tenths == result.value.cycleVariation
        IN  /\ score \in 0..100
            \* score - 1/2 <= 100 - 8 sd  (or the value is clamped to 0)
            /\ score >= 1 =>
                  256 * VarianceNum <= (201 - 2 * score) * (201 - 2 * score) * VarianceDen
            \* 100 - 8 sd < score + 1/2
            /\ score <= 99 =>
                  256 * VarianceNum > (199 - 2 * score) * (199 - 2 * score) * VarianceDen
            \* tenths - 1/2 <= 10 sd < tenths + 1/2
            /\ tenths >= 0
            /\ tenths >= 1 =>
                  (2 * tenths - 1) * (2 * tenths - 1) * VarianceDen <= 400 * VarianceNum
            /\ 400 * VarianceNum < (2 * tenths + 1) * (2 * tenths + 1) * VarianceDen
            /\ score - ScoreOfReported(tenths) \in {-1, 0, 1}

\* an analysis whose score differs from the one computed from the reported variation
WitC6 ==
    /\ Returned("analyzeCycles")
    /\ result.value.regularityScore \in 1..99
    /\ result.value.regularityScore # ScoreOfReported(result.value.cycleVariation)

\* C7: baseConfidence is 50, plus the one volume bonus that applies (25 for
\* totalCycles >= 6, else 15 for >= 3, else 10 for >= 1), plus regularityScore/100 * 20,
\* plus 10 when recentCycles >= 3, clamped so that it always lies in [30, 95].
ThmC7 ==
    Returned("calculateBaseConfidence") =>
        LET a == result.analysis
            bonuses == { b \in {25, 15, 10, 0} :
                           \/ b = 25 /\ a.totalCycles >= 6
                           \/ b = 15 /\ a.totalCycles \in 3..5
                           \/ b = 10 /\ a.totalCycles \in 1..2
                           \/ b = 0 /\ a.totalCycles = 0 }
            recent == IF a.recentCycles >= 3 THEN 10 ELSE 0
        IN  /\ Cardinality(bonuses) = 1
            /\ \A b \in bonuses :
                  LET hundredths == 100 * (50 + b + recent) + 20 * a.regularityScore
                      clamped == IF hundredths < 3000 THEN 3000
                                 ELSE IF hundredths > 9500 THEN 9500 ELSE hundredths
                  IN  result.value.num * 100 = clamped * result.value.den
            /\ 30 * result.value.den <= result.value.num
            /\ result.value.num <= 95 * result.value.den

\* the middle bonus applies and the result is below the upper clamp
WitC7 ==
    /\ Returned("calculateBaseConfidence")
    /\ result.analysis.totalCycles \in 3..5
    /\ result.analysis.regularityScore < 50
    /\ result.value.num * 100 = (100 * (50 + 15 + 10) + 20 * result.analysis.regularityScore)
                                    * result.value.den

\* latest start date among the caller's records
LastStart(history) ==
    CHOOSE d \in { history[i].startDate : i \in 1..Len(history) } :
        \A i \in 1..Len(history) : history[i].startDate <= d

IsRun(days, first, count) ==
    /\ Len(days) = count
    /\ \A i \in 1..Len(days) : days[i] = first + i - 1

\* C8: for every non-empty history nextPeriod.startDate is the start date of the
\* chronologically last record (whatever the input order) plus averageCycleLength days,
\* and predictedDays is exactly averagePeriodLength consecutive dates from there.
CexC8 ==
    (Returned("generatePredictions") /\ ~result.threw) =>
        LET next == result.value.nextPeriod
            a == result.value.analysis
        IN  /\ next.startDate = LastStart(periodHistory) + a.averageCycleLength
            /\ IsRun(next.predictedDays, next.startDate, a.averagePeriodLength)

\* C9: possibleDays is exactly the dates of [startDate - v, startDate + v +
\* averagePeriodLength], v = ceil(cycleVariation / 2), ascending without gaps or
\* duplicates, so it has 2v + averagePeriodLength + 1 dates and contains predictedDays.
CexC9 ==
    (Returned("generatePredictions") /\ ~result.threw) =>
        LET next == result.value.nextPeriod
            a == result.value.analysis
            \* cycleVariation is in tenths: v is the least integer with 2 v >= tenths / 10
            v == CHOOSE k \in 0..a.cycleVariation :
                    20 * k >= a.cycleVariation /\ 20 * (k - 1) < a.cycleVariation
        IN  /\ IsRun(next.possibleDays, next.startDate - v, 2 * v + a.averagePeriodLength + 1)
            /\ \A i \in 1..Len(next.predictedDays) :
                  \E j \in 1..Len(next.possibleDays) :
                      next.possibleDays[j] = next.predictedDays[i]

\* days from the predicted ovulation date to the predicted next period
LutealDays == result.value.nextPeriod.startDate - result.value.ovulation.date

\* C10 as stated: ovulation is exactly 14 days before nextPeriod.startDate when
\* regularityScore >= 70, otherwise a whole number of days that is never fewer than 13
\* and never 16 or more.
CexC10 ==
    (Returned("generatePredictions") /\ ~result.threw) =>
        IF result.value.analysis.regularityScore >= 70
        THEN LutealDays = 14
        ELSE LutealDays >= 13 /\ LutealDays < 16

\* C10 amended: ovulation is exactly 14 days before nextPeriod.startDate when
\* regularityScore >= 70, otherwise 13, 14, 15 or 16 days before (the draw from [13,16)
\* is rounded to the nearest day, and a draw of 15.5 or more rounds to 16).
ThmC10 ==
    (Returned("generatePredictions") /\ ~result.threw) =>
        IF result.value.analysis.regularityScore >= 70
        THEN LutealDays = 14
        ELSE LutealDays \in 13..16

\* an irregular history whose draw was rounded up to 16 days
WitC10 ==
    /\ Returned("generatePredictions")
    /\ ~result.threw
    /\ result.value.analysis.regularityScore < 70
    /\ LutealDays = 16

Predicted == Returned("generatePredictions") /\ ~result.threw

\* C11: fertileWindow always has exactly 7 consecutive dates from ovulationDate - 5 to
\* ovulationDate + 1, so the element at (zero-based) index 5, the one the panels mark
\* as ovulation day, is the ovulation date.
ThmC11 ==
    Predicted =>
        LET o == result.value.ovulation
        IN  /\ Len(o.fertileWindow) = 7
            /\ \A i \in 1..Len(o.fertileWindow) : o.fertileWindow[i] = o.date - 5 + (i - 1)
            /\ o.fertileWindow[OvulationBadgeIndex + 1] = o.date

\* a jittered ovulation date (15 days before the next period) with its window
WitC11 ==
    /\ Predicted
    /\ LutealDays = 15
    /\ result.value.ovulation.fertileWindow[1] = result.value.nextPeriod.startDate - 20
    /\ result.value.ovulation.fertileWindow[7] = result.value.nextPeriod.startDate - 14

\* C12: for every non-empty history futureCycles has exactly 6 entries numbered 1..6 in
\* order; entry i starts at nextPeriod.startDate + (i - 1) * averageCycleLength and ends
\* at its startDate + averagePeriodLength - 1.
ThmC12 ==
    Predicted =>
        LET f == result.value.futureCycles
            a == result.value.analysis
        IN  /\ Len(f) = 6
            /\ \A i \in 1..Len(f) :
                  /\ f[i].cycleNumber = i
                  /\ f[i].startDate = result.value.nextPeriod.startDate
                                         + (i - 1) * a.averageCycleLength
                  /\ f[i].endDate = f[i].startDate + a.averagePeriodLength - 1

\* learned (non-default) lengths: the sixth cycle starts five learned cycles later
WitC12 ==
    /\ Predicted
    /\ result.value.analysis.averageCycleLength = 37
    /\ result.value.analysis.averagePeriodLength = 9
    /\ result.value.futureCycles[6].startDate = result.value.nextPeriod.startDate + 185
    /\ result.value.futureCycles[6].endDate = result.value.futureCycles[6].startDate + 8

\* baseConfidence in hundredths, restated from the analysis
BaseHundredths(a) ==
    LET volume == IF a.totalCycles >= 6 THEN 2500
                  ELSE IF a.totalCycles >= 3 THEN 1500
                  ELSE IF a.totalCycles >= 1 THEN 1000 ELSE 0
        recent == IF a.recentCycles >= 3 THEN 1000 ELSE 0
        raw == 5000 + volume + 20 * a.regularityScore + recent
    IN  IF raw < 3000 THEN 3000 ELSE IF raw > 9500 THEN 9500 ELSE raw

\* C13: future cycle i has confidence round(max(70, baseConfidence - (i - 1) * 5) * 0.75)
\* and the confidences never increase with the cycle index.
ThmC13 ==
    Predicted =>
        LET f == result.value.futureCycles
            base == BaseHundredths(result.value.analysis)
        IN  /\ \A i \in 1..Len(f) :
                  LET decayed == base - (i - 1) * 500
                      floored == IF decayed < 7000 THEN 7000 ELSE decayed
                  IN  IsRounded(f[i].confidence, floored * 75, 10000)
            /\ \A i \in 2..Len(f) : f[i].confidence <= f[i - 1].confidence

\* a history whose future confidences really decay before they reach the floor
WitC13 ==
    /\ Predicted
    /\ BaseHundredths(result.value.analysis) = 9500
    /\ result.value.futureCycles[1].confidence = 71
    /\ result.value.futureCycles[2].confidence = 68
    /\ result.value.futureCycles[6].confidence = 53

\* C14: for every non-empty history nextPeriod.confidence > ovulation.confidence > the
\* confidence of every futureCycles entry.
CexC14 ==
    Predicted =>
        /\ result.value.nextPeriod.confidence > result.value.ovulation.confidence
        /\ \A i \in 1..Len(result.value.futureCycles) :
              result.value.ovulation.confidence > result.value.futureCycles[i].confidence

\* C15: isUnusuallyIrregular is true iff regularityScore < 50 and totalCycles >= 3, so it
\* is false for every history with fewer than 4 records.  (regularityScore < 50 iff
\* 100 - 8 sd < 49.5 iff 16 sd > 101.)
ThmC15 ==
    /\ Returned("isUnusuallyIrregular") =>
          /\ result.value <=>
                (NumCycles >= 3 /\ 256 * VarianceNum > 101 * 101 * VarianceDen)
          /\ Len(periodHistory) < 4 => ~result.value
    /\ (Returned("useCyclePredictions") /\ ~result.value.predictions.isNull) =>
          LET a == result.value.predictions.value.analysis
          IN  result.value.isIrregular <=> (a.regularityScore < 50 /\ a.totalCycles >= 3)

\* the flag raised on a long enough irregular history
WitC15 ==
    /\ Returned("isUnusuallyIrregular")
    /\ result.value
    /\ Len(periodHistory) = 4

\* the advisory messages in emission order with their triggering conditions
InsightTable(a) ==
    << [when |-> a.totalCycles < 3,
        text |-> "Log more cycles for more accurate predictions"],
       [when |-> a.regularityScore >= 80,
        text |-> "Your cycles are very regular"],
       [when |-> a.regularityScore >= 60 /\ a.regularityScore < 80,
        text |-> "Your cycles are moderately regular"],
       [when |-> a.regularityScore >= 40 /\ a.regularityScore < 60,
        text |-> "Your cycles show some irregularity"],
       [when |-> a.regularityScore < 40,
        text |-> "Your cycles are quite irregular - consider consulting a healthcare provider"],
       [when |-> a.averageCycleLength < 21,
        text |-> "Your cycles are shorter than average"],
       [when |-> a.averageCycleLength > 35,
        text |-> "Your cycles are longer than average"],
       [when |-> a.averagePeriodLength > 7,
        text |-> "Your periods are longer than average"],
       [when |-> a.averagePeriodLength < 3,
        text |-> "Your periods are shorter than average"] >>

IsTriggered(row) == row.when

ExpectedInsights(a) ==
    LET rows == SelectSeq(InsightTable(a), IsTriggered)
    IN  [i \in 1..Len(rows) |-> rows[i].text]

\* C16: getCycleInsights emits the log-more message iff totalCycles < 3, exactly one of
\* the four regularity messages by the buckets >= 80 / >= 60 / >= 40 / below, the short-
\* (long-) cycle note iff averageCycleLength < 21 (> 35), the long- (short-) period note
\* iff averagePeriodLength > 7 (< 3), in that order.
ThmC16 ==
    (Returned("useCyclePredictions") /\ ~result.value.predictions.isNull) =>
        LET a == result.value.predictions.value.analysis
        IN  /\ result.value.insights = ExpectedInsights(a)
            /\ Cardinality({ i \in 2..5 : InsightTable(a)[i].when }) = 1

\* all four kinds of message at once
WitC16 ==
    /\ Returned("useCyclePredictions")
    /\ ~result.value.predictions.isNull
    /\ Len(result.value.insights) = 4
    /\ result.value.insights[3] = "Your cycles are longer than average"
    /\ result.value.insights[4] = "Your periods are longer than average"

----------------------------------------------------------------------------
(* Properties of the forecasters of the period in progress *)

Forecast == Returned("predictRemainingDays")

HookForecast == Returned("usePeriodPredictions")

\* today's calendar date is among the logged days of the call
TodayLogged ==
    \E i \in 1..Len(result.currentPeriodDays) : result.currentPeriodDays[i] = result.today

\* C17: predictRemainingDays returns empty possibleDays and predictedDays with isComplete
\* false whenever no day is logged or today's date is not among the logged days,
\* whatever the number of logged days.
ThmC17 ==
    (Forecast /\ (Len(result.currentPeriodDays) = 0 \/ ~TodayLogged)) =>
        /\ result.value.possibleDays = <<>>
        /\ result.value.predictedDays = <<>>
        /\ ~result.value.isComplete

\* five logged days, none of them today: nothing forecast and not complete
WitC17 ==
    /\ Forecast
    /\ Len(result.currentPeriodDays) >= 5
    /\ ~TodayLogged
    /\ ~result.value.isComplete
    /\ result.value.possibleDays = <<>>

\* C18 as stated: isComplete = true whenever 5 or more days are logged, and then both
\* possibleDays and predictedDays are empty.
CexC18 ==
    (Forecast /\ Len(result.currentPeriodDays) >= 5) =>
        /\ result.value.isComplete
        /\ result.value.possibleDays = <<>>
        /\ result.value.predictedDays = <<>>

\* C18: isComplete is true exactly when 5 or more days are logged and today's date is
\* among them, and then both possibleDays and predictedDays are empty.
ThmC18 ==
    Forecast =>
        /\ result.value.isComplete <=>
              (Len(result.currentPeriodDays) >= 5 /\ TodayLogged)
        /\ result.value.isComplete =>
              (result.value.possibleDays = <<>> /\ result.value.predictedDays = <<>>)

\* exactly five logged days with today among them
WitC18 ==
    /\ Forecast
    /\ Len(result.currentPeriodDays) = 5
    /\ TodayLogged
    /\ result.value.isComplete

\* the chronologically last of the logged days
LastLogged(logged) ==
    CHOOSE d \in {logged[i] : i \in 1..Len(logged)} :
        \A i \in 1..Len(logged) : logged[i] <= d

\* C19: with k = 1..4 days logged and today among them the forecast runs from the
\* chronologically last logged day L: k=1 gives L+1,L+2,L+3 and L+4; k=2 gives L+1,L+2
\* and L+3; k=3 gives L+1,L+2 and none; k=4 gives L+1 and none; logged plus forecast
\* days total 5 and isComplete is false.
ThmC19 ==
    (Forecast /\ Len(result.currentPeriodDays) \in 1..4 /\ TodayLogged) =>
        LET k == Len(result.currentPeriodDays)
            L == LastLogged(result.currentPeriodDays)
            v == result.value
        IN  /\ k = 1 => (v.possibleDays = <<L + 1, L + 2, L + 3>> /\ v.predictedDays = <<L + 4>>)
            /\ k = 2 => (v.possibleDays = <<L + 1, L + 2>> /\ v.predictedDays = <<L + 3>>)
            /\ k = 3 => (v.possibleDays = <<L + 1, L + 2>> /\ v.predictedDays = <<>>)
            /\ k = 4 => (v.possibleDays = <<L + 1>> /\ v.predictedDays = <<>>)
            /\ k + Len(v.possibleDays) + Len(v.predictedDays) = 5
            /\ ~v.isComplete

\* two days logged out of chronological order, today being the later one
WitC19 ==
    /\ Forecast
    /\ result.currentPeriodDays = <<2, 0>>
    /\ result.today = 2
    /\ result.value.possibleDays = <<3, 4>>
    /\ result.value.predictedDays = <<5>>

\* the forecast days are disjoint from each other and from the logged days, and lie
\* strictly after every logged day
ForecastApart(logged, possibleDays, predictedDays) ==
    /\ \A i \in 1..Len(possibleDays) : \A j \in 1..Len(predictedDays) :
          possibleDays[i] # predictedDays[j]
    /\ \A i \in 1..Len(possibleDays) : \A j \in 1..Len(logged) :
          possibleDays[i] > logged[j]
    /\ \A i \in 1..Len(predictedDays) : \A j \in 1..Len(logged) :
          predictedDays[i] > logged[j]

\* C20: for every input of predictRemainingDays and of the usePeriodPredictions hook,
\* possibleDays and predictedDays share no date with each other, none with the days
\* already logged, and every forecast date lies strictly after the last logged day.
ThmC20 ==
    /\ Forecast =>
          ForecastApart(result.currentPeriodDays,
                        result.value.possibleDays, result.value.predictedDays)
    /\ HookForecast =>
          ForecastApart(result.selectedDates,
                        result.value.possibleDays, result.value.predictedDays)

\* the hook forecasting three possible and two predicted days behind two logged days
WitC20 ==
    /\ HookForecast
    /\ result.selectedDates = <<2, 0>>
    /\ result.cycleStats.averagePeriodLength = 7
    /\ result.value.possibleDays = <<3, 4, 5>>
    /\ result.value.predictedDays = <<6, 7>>

----------------------------------------------------------------------------
(* The page: usePeriodData state and the handlers of MenstrualTracker (src/app/page.tsx) *)

MaxPeriodDays == 10

\* the browser's offset from UTC in hours: local midnight of day d is 24 * d - offset
TimeZoneOffset == 2

\* date.toISOString() of the local midnight of a day: the UTC calendar day and hour
toISOString(day) ==
    LET instant == 24 * day - TimeZoneOffset
    IN  [utcDay |-> instant \div 24, utcHour |-> instant % 24]

\* variant: only the calendar date of the UTC timestamp is read back
NewDate_DateOnly(iso) == iso.utcDay

\* new Date(isoString), as the local calendar day of the parsed instant
NewDate(iso) == (24 * iso.utcDay + iso.utcHour + TimeZoneOffset) \div 24

\* JSON.stringify(periodHistory): every Date becomes its ISO string
JSONStringify(history) ==
    [i \in 1..Len(history) |->
        [startDate |-> toISOString(history[i].startDate),
         endDate |-> toISOString(history[i].endDate),
         days |-> [j \in 1..Len(history[i].days) |-> toISOString(history[i].days[j])]]]

\* JSON.parse(savedHistory).map(log => ({...log, startDate: new Date(...), ...}))
ParseHistory(item) ==
    [i \in 1..Len(item) |->
        [startDate |-> NewDate(item[i].startDate),
         endDate |-> NewDate(item[i].endDate),
         days |-> [j \in 1..Len(item[i].days) |-> NewDate(item[i].days[j])]]]

\* localStorage.setItem("periodHistory", JSON.stringify(periodHistory))
Stored(history) == [isNull |-> FALSE, item |-> JSONStringify(history)]

\* prev.filter(d => !isSameDay(d, date))
FilterOut(dates, date) ==
    LET Other(d) == d # date
    IN  SelectSeq(dates, Other)

\* the setSelectedDates updater of handleDateSelect
toggleDate(prev, date) ==
    IF Includes(prev, date) THEN FilterOut(prev, date)
    ELSE SortDates(Append(prev, date))

\* newLog of savePeriod
NewLog(selected) ==
    LET sortedDates == SortDates(selected)
    IN  [startDate |-> sortedDates[1],
         endDate |-> sortedDates[Len(sortedDates)],
         days |-> sortedDates]

\* log.days.some(day => selected.some(s => isSameDay(day, s)))
SharesDay(log, selected) ==
    \E i \in 1..Len(log.days) : Includes(selected, log.days[i])

\* periodHistory.findIndex(...) as a 1-based index, 0 for -1
existingPeriodIndex(history, selected) ==
    IF \E i \in 1..Len(history) : SharesDay(history[i], selected)
    THEN CHOOSE i \in 1..Len(history) :
             /\ SharesDay(history[i], selected)
             /\ \A j \in 1..(i - 1) : ~SharesDay(history[j], selected)
    ELSE 0

\* variant: the saved record is always appended
savePeriod_AlwaysAppend(history, selected) ==
    IF Len(selected) = 0 THEN history
    ELSE IF Len(selected) > MaxPeriodDays THEN history
    ELSE Append(history, NewLog(selected))

\* variant: the limit of 10 days is not checked
savePeriod_NoLimit(history, selected) ==
    IF Len(selected) = 0 THEN history
    ELSE LET index == existingPeriodIndex(history, selected)
         IN  IF index # 0
             THEN [history EXCEPT ![index] = NewLog(selected)]
             ELSE Append(history, NewLog(selected))

\* the periodHistory that savePeriod sets
savePeriod(history, selected) ==
    IF Len(selected) = 0 THEN history
    ELSE IF Len(selected) > MaxPeriodDays THEN history
    ELSE LET index == existingPeriodIndex(history, selected)
         IN  IF index # 0
             THEN [history EXCEPT ![index] = NewLog(selected)]
             ELSE Append(history, NewLog(selected))

\* variant: the record keeps its old startDate and endDate
RemoveDay_StaleRange(log, dateToDelete) ==
    IF Includes(log.days, dateToDelete)
    THEN LET updatedDays == FilterOut(log.days, dateToDelete)
         IN  IF Len(updatedDays) = 0 THEN Null
             ELSE [startDate |-> log.startDate, endDate |-> log.endDate,
                   days |-> SortDates(updatedDays)]
    ELSE log

\* the map callback of deletePeriodDay: the updated record, or null
RemoveDay(log, dateToDelete) ==
    IF Includes(log.days, dateToDelete)
    THEN LET updatedDays == FilterOut(log.days, dateToDelete)
         IN  IF Len(updatedDays) = 0 THEN Null
             ELSE LET sortedDays == SortDates(updatedDays)
                  IN  [startDate |-> sortedDays[1],
                       endDate |-> sortedDays[Len(sortedDays)],
                       days |-> sortedDays]
    ELSE log

\* prev.map(...).filter(Boolean)
deletePeriodDay(prev, dateToDelete) ==
    LET mapped == [i \in 1..Len(prev) |-> RemoveDay(prev[i], dateToDelete)]
        NotNull(log) == log # Null
    IN  SelectSeq(mapped, NotNull)

\* prev.filter(log => log.startDate.getTime() !== periodToDelete.startDate.getTime())
deletePeriod(prev, periodToDelete) ==
    LET Kept(log) == log.startDate # periodToDelete.startDate
    IN  SelectSeq(prev, Kept)

\* periodHistory.flatMap(log => log.days) contains the date
IsLoggedDate(history, date) == \E i \in 1..Len(history) : Includes(history[i].days, date)

(* which controls PeriodCalendar and PeriodStats render, and which are enabled *)

StartNewPeriodEnabled == ~isLogging /\ ~editMode
ContinueLastPeriodEnabled == ~isLogging /\ Len(periodHistory) > 0 /\ ~editMode
EditToggleShown == ~isLogging /\ Len(periodHistory) > 0
SavePeriodEnabled ==
    isLogging /\ ~(Len(selectedDates) = 0 \/ Len(selectedDates) > MaxPeriodDays)
CancelShown == isLogging
\* periodHistory.slice(-5): the records that have a delete button
DeleteButtons == { i \in 1..Len(periodHistory) : i > Len(periodHistory) - 5 }

----------------------------------------------------------------------------
(* State machine of the page *)

\* the page mounted on an empty localStorage: the save effect has stored "[]"
PageInit ==
    /\ periodHistory = <<>>
    /\ engineHistory = <<>>
    /\ pc = "mounted"
    /\ result = NoResult
    /\ selectedDates = <<>>
    /\ isLogging = FALSE
    /\ editMode = FALSE
    /\ currentPeriod = Null
    /\ localStorage = Stored(<<>>)
    /\ queued = Null
    /\ session = "none"

\* a click on an enabled calendar day
HandleDateSelect ==
    /\ pc = "mounted"
    /\ \E date \in 0..LastDay :
         IF isLogging
         THEN /\ selectedDates' = toggleDate(selectedDates, date)
              /\ UNCHANGED <<periodHistory, localStorage>>
         ELSE IF editMode /\ IsLoggedDate(periodHistory, date)
         THEN /\ periodHistory' = deletePeriodDay(periodHistory, date)
              /\ localStorage' = Stored(periodHistory')
              /\ UNCHANGED selectedDates
         ELSE UNCHANGED <<selectedDates, periodHistory, localStorage>>
    /\ UNCHANGED <<engineHistory, pc, result, queued, isLogging, editMode, currentPeriod, session>>

StartNewPeriod ==
    /\ pc = "mounted"
    /\ StartNewPeriodEnabled
    /\ isLogging' = TRUE
    /\ selectedDates' = <<>>
    /\ session' = "new"
    /\ UNCHANGED <<periodHistory, engineHistory, pc, result, queued, editMode, currentPeriod,
                   localStorage>>

ContinueCurrentPeriod ==
    /\ pc = "mounted"
    /\ ContinueLastPeriodEnabled
    /\ LET lastPeriod == periodHistory[Len(periodHistory)]
       IN  /\ selectedDates' = lastPeriod.days
           /\ isLogging' = TRUE
    /\ session' = "continue"
    /\ UNCHANGED <<periodHistory, engineHistory, pc, result, queued, editMode, currentPeriod,
                   localStorage>>

ToggleEditMode ==
    /\ pc = "mounted"
    /\ EditToggleShown
    /\ editMode' = ~editMode
    /\ IF ~editMode /\ isLogging
       THEN /\ selectedDates' = <<>>
            /\ isLogging' = FALSE
            /\ session' = "none"
       ELSE UNCHANGED <<selectedDates, isLogging, session>>
    /\ UNCHANGED <<periodHistory, engineHistory, pc, result, queued, currentPeriod, localStorage>>

\* Save Period; the history is grown to MaxPageRecords records at most
SavePeriod ==
    /\ pc = "mounted"
    /\ SavePeriodEnabled
    /\ Len(savePeriod(periodHistory, selectedDates)) <= MaxPageRecords
    /\ periodHistory' = savePeriod(periodHistory, selectedDates)
    /\ localStorage' = Stored(periodHistory')
    /\ selectedDates' = <<>>
    /\ isLogging' = FALSE
    /\ session' = "none"
    /\ UNCHANGED <<engineHistory, pc, result, queued, editMode, currentPeriod>>

CancelLogging ==
    /\ pc = "mounted"
    /\ CancelShown
    /\ selectedDates' = <<>>
    /\ isLogging' = FALSE
    /\ session' = "none"
    /\ UNCHANGED <<periodHistory, engineHistory, pc, result, queued, editMode, currentPeriod,
                   localStorage>>

\* the delete button of a record in PeriodStats, the confirm() dialog accepted
DeletePeriod ==
    /\ pc = "mounted"
    /\ \E i \in DeleteButtons :
         periodHistory' = deletePeriod(periodHistory, periodHistory[i])
    /\ localStorage' = Stored(periodHistory')
    /\ UNCHANGED <<engineHistory, pc, result, queued, selectedDates, isLogging, editMode,
                   currentPeriod, session>>

PageNext ==
    \/ HandleDateSelect
    \/ StartNewPeriod
    \/ ContinueCurrentPeriod
    \/ ToggleEditMode
    \/ SavePeriod
    \/ CancelLogging
    \/ DeletePeriod

PageSpec == PageInit /\ [][PageNext]_vars

----------------------------------------------------------------------------
(* Mounting the page on what an earlier visit left in localStorage *)

Queued(history) == [isNull |-> FALSE, value |-> history]

\* sorted selections of distinct clickable days
Selections ==
    { days \in UNION { [1..n -> 0..LastDay] : n \in 1..(LastDay + 1) } :
        \A i \in 1..(Len(days) - 1) : days[i] < days[i + 1] }

\* the histories an earlier visit can have stored
PersistedHistories ==
    UNION { [1..n -> { NewLog(days) : days \in Selections }] : n \in 0..MaxPageRecords }

\* the first render: useState initial values, the effects have not run yet; result
\* remembers the history of the earlier visit
MountInit ==
    /\ periodHistory = <<>>
    /\ engineHistory = <<>>
    /\ pc = "rendered"
    /\ \E history \in PersistedHistories :
         /\ result = [op |-> "persisted", value |-> history]
         /\ localStorage \in IF history = <<>> THEN {Null, Stored(history)}
                              ELSE {Stored(history)}
    /\ selectedDates = <<>>
    /\ isLogging = FALSE
    /\ editMode = FALSE
    /\ currentPeriod = Null
    /\ queued = Null
    /\ session = "none"

\* the update the load effect queues: if (savedHistory) setPeriodHistory(historyWithDates)
LoadedUpdate(savedHistory) ==
    IF savedHistory # Null THEN Queued(ParseHistory(savedHistory.item)) ELSE Null

\* useEffect(() => {...}, []) of the first commit
LoadEffect ==
    /\ pc = "rendered"
    /\ queued' = LoadedUpdate(localStorage)
    /\ pc' = "loadEffectRan"
    /\ UNCHANGED <<periodHistory, engineHistory, result, selectedDates, isLogging, editMode,
                   currentPeriod, localStorage, session>>

\* useEffect(() => {...}, [periodHistory]): after the first commit it sees the initial [],
\* after the re-render the loaded history
SaveEffect ==
    /\ pc \in {"loadEffectRan", "rerendered"}
    /\ localStorage' = Stored(periodHistory)
    /\ pc' = IF pc = "rerendered" \/ queued = Null THEN "mounted" ELSE "effectsRan"
    /\ UNCHANGED <<periodHistory, engineHistory, result, selectedDates, isLogging, editMode,
                   currentPeriod, queued, session>>

\* the render that the queued setPeriodHistory triggers
Rerender ==
    /\ pc = "effectsRan"
    /\ queued # Null
    /\ periodHistory' = queued.value
    /\ queued' = Null
    /\ pc' = "rerendered"
    /\ UNCHANGED <<engineHistory, result, selectedDates, isLogging, editMode,
                   currentPeriod, localStorage, session>>

MountNext ==
    \/ LoadEffect
    \/ SaveEffect
    \/ Rerender

MountSpec == MountInit /\ [][MountNext]_vars

----------------------------------------------------------------------------
(* A render of the page: usePeriodData.cycleStats and the two prediction hooks *)

\* cycleStats of usePeriodData: computed on periodHistory in insertion order;
\* cycleVariation is kept in tenths of a day, as Math.round(sd * 10)
cycleStats(history) ==
    IF Len(history) < 2
    THEN [averageCycleLength |-> 28, averagePeriodLength |-> 5,
          cycleVariation |-> 20, totalCycles |-> 0]
    ELSE LET cycleLengths == calculateCycleLengths(history)
             periodLengths == calculatePeriodLengths(history)
             averageCycle == calculateWeightedAverage(cycleLengths, 6)
             averagePeriod == calculateWeightedAverage(periodLengths, 6)
             recent == SliceLast(cycleLengths, 6)
             variance == calculateStandardDeviation(recent)
         IN  [averageCycleLength |-> MathRound(averageCycle.num, averageCycle.den),
              averagePeriodLength |-> MathRound(averagePeriod.num, averagePeriod.den),
              cycleVariation |-> IF Len(recent) < 2 THEN 20
                                 ELSE RoundSqrt(100 * variance.num, variance.den),
              totalCycles |-> Len(cycleLengths)]

\* histories the page can hold: what the handlers build on the clickable days, and
\* periods of five days logged four weeks apart, in either order
RenderedHistories ==
    PersistedHistories
        \cup { <<PeriodLog(0, 4)>>,
               <<PeriodLog(0, 4), PeriodLog(28, 32)>>,
               <<PeriodLog(28, 32), PeriodLog(0, 4)>> }

RenderInit ==
    /\ periodHistory \in RenderedHistories
    /\ engineHistory = <<>>
    /\ pc = "mounted"
    /\ result = NoResult
    /\ selectedDates = <<>>
    /\ isLogging = FALSE
    /\ editMode = FALSE
    /\ currentPeriod = Null
    /\ localStorage = Stored(periodHistory)
    /\ queued = Null
    /\ session = "none"

\* the body of MenstrualTracker: usePeriodData, usePeriodPredictions and
\* useCyclePredictions on the same periodHistory, each with its own Math.random() draws
\* (the engine's draw is explored at its least and its greatest value)
Render ==
    /\ pc = "mounted"
    /\ \E random \in (IF Len(periodHistory) > 0 THEN RandomDraws ELSE {<<>>}),
          engineRandom \in {0, RandomSteps - 1} :
         result' = [op |-> "render",
                    cycleStats |-> cycleStats(periodHistory),
                    predictions |-> usePeriodPredictions(periodHistory, selectedDates,
                                                         isLogging, cycleStats(periodHistory),
                                                         LastDay, random),
                    cyclePredictions |-> useCyclePredictions(periodHistory, engineRandom)]
    /\ pc' = "rendered"
    /\ UNCHANGED <<periodHistory, engineHistory, selectedDates, isLogging, editMode,
                   currentPeriod, localStorage, queued, session>>

RenderNext == Render

RenderSpec == RenderInit /\ [][RenderNext]_vars

----------------------------------------------------------------------------
(* The earlier page (src/unnamed/part_002, and page.tsx from line 216): a continued
   period is kept in currentPeriod and merged with the new selection on save *)

Current(days) == [isNull |-> FALSE, days |-> days]

RECURSIVE Unique(_)
\* .filter((date, index, arr) => arr.findIndex(d => isSameDay(d, date)) === index)
Unique(dates) ==
    IF dates = <<>> THEN <<>>
    ELSE LET front == Unique(SubSeq(dates, 1, Len(dates) - 1))
             date == dates[Len(dates)]
         IN  IF Includes(front, date) THEN front ELSE Append(front, date)

\* updatedLog of the earlier savePeriod
UpdatedLog(current, selected) ==
    LET updatedDays == SortDates(Unique(current \o selected))
    IN  [startDate |-> updatedDays[1],
         endDate |-> updatedDays[Len(updatedDays)],
         days |-> updatedDays]

\* the periodHistory that the earlier savePeriod sets; on an empty array
\* updated[updated.length - 1] = ... adds no element
mergeSavePeriod(prev, selected, current) ==
    IF Len(selected) = 0 THEN prev
    ELSE IF Len(selected) > MaxPeriodDays THEN prev
    ELSE IF current # Null
    THEN IF Len(prev) = 0 THEN prev
         ELSE [prev EXCEPT ![Len(prev)] = UpdatedLog(current.days, selected)]
    ELSE Append(prev, NewLog(selected))

\* the days marked on the calendar: logged, continued or selected
Marked(date) ==
    \/ IsLoggedDate(periodHistory, date)
    \/ Includes(selectedDates, date)
    \/ currentPeriod # Null /\ Includes(currentPeriod.days, date)

\* the clicks explored on the long calendar: while logging the day after the latest
\* marked day or the latest selected day, otherwise the last day of the last record
ClickedInOrder ==
    { date \in 0..LongLastDay :
        IF isLogging
        THEN \/ ~Marked(date) /\ \A d \in date..LongLastDay : ~Marked(d)
                /\ (date = 0 \/ Marked(date - 1))
             \/ /\ Includes(selectedDates, date)
                /\ \A d \in (date + 1)..LongLastDay : ~Includes(selectedDates, d)
        ELSE /\ Len(periodHistory) > 0
             /\ date = periodHistory[Len(periodHistory)].endDate }

EarlierPageInit ==
    /\ periodHistory = <<>>
    /\ engineHistory = <<>>
    /\ pc = "mountedEarlier"
    /\ result = NoResult
    /\ selectedDates = <<>>
    /\ isLogging = FALSE
    /\ editMode = FALSE
    /\ currentPeriod = Null
    /\ localStorage = Stored(<<>>)
    /\ queued = Null
    /\ session = "none"

EarlierHandleDateSelect ==
    /\ pc = "mountedEarlier"
    /\ \E date \in ClickedInOrder :
         IF isLogging
         THEN /\ selectedDates' = toggleDate(selectedDates, date)
              /\ UNCHANGED <<periodHistory, localStorage>>
         ELSE IF editMode /\ IsLoggedDate(periodHistory, date)
         THEN /\ periodHistory' = deletePeriodDay(periodHistory, date)
              /\ localStorage' = Stored(periodHistory')
              /\ UNCHANGED selectedDates
         ELSE UNCHANGED <<selectedDates, periodHistory, localStorage>>
    /\ UNCHANGED <<engineHistory, pc, result, queued, isLogging, editMode, currentPeriod, session>>

EarlierStartNewPeriod ==
    /\ pc = "mountedEarlier"
    /\ StartNewPeriodEnabled
    /\ isLogging' = TRUE
    /\ selectedDates' = <<>>
    /\ currentPeriod' = Null
    /\ session' = "new"
    /\ UNCHANGED <<periodHistory, engineHistory, pc, result, queued, editMode, localStorage>>

EarlierContinueCurrentPeriod ==
    /\ pc = "mountedEarlier"
    /\ ContinueLastPeriodEnabled
    /\ LET lastPeriod == periodHistory[Len(periodHistory)]
       IN  /\ currentPeriod' = Current(lastPeriod.days)
           /\ selectedDates' = <<>>
           /\ isLogging' = TRUE
    /\ session' = "continue"
    /\ UNCHANGED <<periodHistory, engineHistory, pc, result, queued, editMode, localStorage>>

\* Save Period; the history is grown to MaxPageRecords records at most
EarlierSavePeriod ==
    /\ pc = "mountedEarlier"
    /\ SavePeriodEnabled
    /\ Len(mergeSavePeriod(periodHistory, selectedDates, currentPeriod)) <= MaxPageRecords
    /\ periodHistory' = mergeSavePeriod(periodHistory, selectedDates, currentPeriod)
    /\ localStorage' = Stored(periodHistory')
    /\ selectedDates' = <<>>
    /\ currentPeriod' = Null
    /\ isLogging' = FALSE
    /\ session' = "none"
    /\ UNCHANGED <<engineHistory, pc, result, queued, editMode>>

EarlierCancelLogging ==
    /\ pc = "mountedEarlier"
    /\ CancelShown
    /\ selectedDates' = <<>>
    /\ currentPeriod' = Null
    /\ isLogging' = FALSE
    /\ session' = "none"
    /\ UNCHANGED <<periodHistory, engineHistory, pc, result, queued, editMode, localStorage>>

EarlierToggleEditMode ==
    /\ pc = "mountedEarlier"
    /\ EditToggleShown
    /\ editMode' = ~editMode
    /\ IF ~editMode /\ isLogging
       THEN /\ selectedDates' = <<>>
            /\ currentPeriod' = Null
            /\ isLogging' = FALSE
            /\ session' = "none"
       ELSE UNCHANGED <<selectedDates, currentPeriod, isLogging, session>>
    /\ UNCHANGED <<periodHistory, engineHistory, pc, result, queued, localStorage>>

EarlierDeletePeriod ==
    /\ pc = "mountedEarlier"
    /\ \E i \in DeleteButtons :
         periodHistory' = deletePeriod(periodHistory, periodHistory[i])
    /\ localStorage' = Stored(periodHistory')
    /\ UNCHANGED <<engineHistory, pc, result, queued, selectedDates, isLogging, editMode,
                   currentPeriod, session>>

EarlierPageNext ==
    \/ EarlierHandleDateSelect
    \/ EarlierStartNewPeriod
    \/ EarlierContinueCurrentPeriod
    \/ EarlierSavePeriod
    \/ EarlierCancelLogging
    \/ EarlierToggleEditMode
    \/ EarlierDeletePeriod

EarlierPageSpec == EarlierPageInit /\ [][EarlierPageNext]_vars

----------------------------------------------------------------------------
(* The two forecasters of the period in progress compared *)

\* a hook call made while logging 1 to 4 days, today among them
HookInProgress ==
    /\ HookForecast
    /\ result.isLogging
    /\ Len(result.selectedDates) \in 1..4
    /\ \E i \in 1..Len(result.selectedDates) : result.selectedDates[i] = result.today

\* the fixed 5-day schedule on the logged days of the hook call
FixedSchedule == predictRemainingDays(result.selectedDates, result.today)

SameForecast ==
    /\ result.value.possibleDays = FixedSchedule.possibleDays
    /\ result.value.predictedDays = FixedSchedule.predictedDays

\* C21 as stated: for the same 1 to 4 logged days including today the fixed schedule and
\* the hook give the same possibleDays and predictedDays when averagePeriodLength is 5,
\* and differ only when it is not 5.
CexC21 ==
    HookInProgress =>
        /\ result.cycleStats.averagePeriodLength = 5 => SameForecast
        /\ ~SameForecast => result.cycleStats.averagePeriodLength # 5

\* C21: the two forecasts are the same exactly when averagePeriodLength is 5 and the
\* number of logged days is 1, 3 or 4; with averagePeriodLength 5 and 2 logged days both
\* forecast the same three dates, all possible in the hook, the third predicted in the
\* fixed schedule.
ThmC21 ==
    HookInProgress =>
        /\ SameForecast <=>
              (result.cycleStats.averagePeriodLength = 5 /\ Len(result.selectedDates) # 2)
        /\ (result.cycleStats.averagePeriodLength = 5 /\ Len(result.selectedDates) = 2) =>
              /\ result.value.possibleDays =
                     FixedSchedule.possibleDays \o FixedSchedule.predictedDays
              /\ result.value.predictedDays = <<>>

\* two logged days and a target of 5: three possible days from the hook
WitC21 ==
    /\ HookInProgress
    /\ result.cycleStats.averagePeriodLength = 5
    /\ result.selectedDates = <<1, 2>>
    /\ result.value.possibleDays = <<3, 4, 5>>
    /\ FixedSchedule.predictedDays = <<5>>

----------------------------------------------------------------------------
(* Repeated calls *)

\* C22: two analyzeCycles calls on the same records, in any input order, return identical
\* results; two generatePredictions calls on the same history return identical analysis,
\* nextPeriod and futureCycles, and identical ovulation whenever regularityScore >= 70.
CexC22 ==
    /\ Returned("analyzeCyclesTwice") => result.first = result.second
    /\ (Returned("generatePredictionsTwice") /\ ~result.first.threw) =>
          /\ ~result.second.threw
          /\ result.first.value.analysis = result.second.value.analysis
          /\ result.first.value.nextPeriod = result.second.value.nextPeriod
          /\ result.first.value.futureCycles = result.second.value.futureCycles
          /\ result.first.value.analysis.regularityScore >= 70 =>
                result.first.value.ovulation = result.second.value.ovulation

\* the same statement on histories whose start days are pairwise distinct
RepeatableOnDistinctStarts == DistinctStarts(periodHistory) => CexC22

----------------------------------------------------------------------------
(* The records the page keeps *)

\* days is not empty, startDate is its earliest day and endDate its latest
ConsistentRecord(log) ==
    /\ Len(log.days) > 0
    /\ Includes(log.days, log.startDate)
    /\ Includes(log.days, log.endDate)
    /\ \A j \in 1..Len(log.days) :
          log.startDate <= log.days[j] /\ log.days[j] <= log.endDate

\* C23: after any sequence of page operations every record of periodHistory has a
\* non-empty days list, startDate equal to the earliest of its days and endDate equal to
\* the latest; a record whose last day is deleted is removed, so none is left empty.
ThmC23 ==
    \A i \in 1..Len(periodHistory) : ConsistentRecord(periodHistory[i])

\* in edit mode: a one-day record and a record whose days 0 and 2 leave a gap
WitC23 ==
    /\ editMode
    /\ Len(periodHistory) = 2
    /\ periodHistory[1] = [startDate |-> 1, endDate |-> 1, days |-> <<1>>]
    /\ periodHistory[2] = [startDate |-> 0, endDate |-> 2, days |-> <<0, 2>>]

\* C24: after any sequence of page operations, "Continue Last Period" followed by
\* selecting further dates and saving included, every record of periodHistory has at
\* most 10 days.
CexC24 ==
    \A i \in 1..Len(periodHistory) : Len(periodHistory[i].days) <= MaxPeriodDays

\* C25: the periodHistory that the page keeps and hands to the prediction code is ordered
\* by startDate after any sequence of saves and deletions: its last element is the most
\* recent period and consecutive start-date differences (cycle lengths) are positive.
CexC25 ==
    \A i \in 1..(Len(periodHistory) - 1) :
        periodHistory[i + 1].startDate - periodHistory[i].startDate > 0

----------------------------------------------------------------------------
(* What a save may change *)

\* the history after the step keeps every record it had, in place
RecordsKept == SubSeq(periodHistory', 1, Len(periodHistory)) = periodHistory

\* C26: a save that follows "Start New Period" appends exactly one record and leaves every
\* record already in periodHistory unchanged; a save that follows "Continue Last Period"
\* changes only the last record.
CexC26 ==
    [][/\ (SavePeriod /\ session = "new") =>
            /\ Len(periodHistory') = Len(periodHistory) + 1
            /\ RecordsKept
       /\ (SavePeriod /\ session = "continue") =>
            /\ Len(periodHistory') = Len(periodHistory)
            /\ \A i \in 1..(Len(periodHistory) - 1) : periodHistory'[i] = periodHistory[i]
      ]_vars

----------------------------------------------------------------------------
(* Separation of the records *)

\* C27: after any sequence of page operations no calendar day belongs to two different
\* records of periodHistory, and all records have pairwise distinct start dates.
CexC27 ==
    \A i, j \in 1..Len(periodHistory) :
        i # j =>
            /\ ~SharesDay(periodHistory[i], periodHistory[j].days)
            /\ periodHistory[i].startDate # periodHistory[j].startDate

----------------------------------------------------------------------------
(* Leaving edit mode *)

\* a rendered, enabled control that leads towards logging a new period: Start New Period
\* itself, Cancel while logging, or the edit toggle while edit mode disables Start
WayToNewPeriod == StartNewPeriodEnabled \/ CancelShown \/ EditToggleShown

\* C28: from every reachable page state some sequence of user actions leads to a state
\* where a new period can be logged; the page is never in edit mode with "Start New
\* Period" disabled and no control to leave edit mode.
CexC28 == WayToNewPeriod

\* once no such control is left, no handler changes the page any more
StuckForGood ==
    [][~WayToNewPeriod => UNCHANGED <<periodHistory, selectedDates, isLogging, editMode>>]_vars

----------------------------------------------------------------------------
(* Mount effects *)

\* C29: when the page mounts on a non-empty history persisted in localStorage, the load
\* effect and the save effect (which first runs with the empty initial state) do not lose
\* it: once the mount effects and the re-render they trigger have run, periodHistory and
\* the stored item both equal the persisted history, every date preserved.
ThmC29 ==
    (pc = "mounted" /\ result.op = "persisted" /\ Len(result.value) > 0) =>
        /\ periodHistory = result.value
        /\ localStorage = Stored(result.value)
        /\ queued = Null

\* mounted on a stored history of two records, the first one with a gap
WitC29 ==
    /\ pc = "mounted"
    /\ result.op = "persisted"
    /\ Len(result.value) = 2
    /\ periodHistory[1] = [startDate |-> 0, endDate |-> 2, days |-> <<0, 2>>]
    /\ periodHistory[2] = [startDate |-> 1, endDate |-> 1, days |-> <<1>>]
    /\ localStorage = Stored(periodHistory)

\* between the first save effect and the re-render the stored item is the empty list
StoredEmptiedMeanwhile ==
    (pc = "effectsRan" /\ result.op = "persisted") => localStorage = Stored(<<>>)

----------------------------------------------------------------------------
(* The two forecasts of the next period on one page *)

Rendered == pc = "rendered" /\ result.op = "render"

\* the first future period of the calendar and the next period of the engine
CalendarNextStart == result.predictions.futurePeriods[1].startDate
EngineNextStart == result.cyclePredictions.predictions.value.nextPeriod.startDate

\* C30: for the same periodHistory the calendar's first future period (usePeriodPredictions
\* futurePeriods[0].startDate) starts on the engine's nextPeriod.startDate.
CexC30 ==
    (Rendered /\ Len(periodHistory) > 0 /\ ~result.cyclePredictions.predictions.isNull) =>
        CalendarNextStart = EngineNextStart

\* with a single record the two differ by the random adjustment only: at most one day
SingleRecordWithinOneDay ==
    (Rendered /\ Len(periodHistory) = 1) =>
        /\ EngineNextStart = periodHistory[1].startDate + 28
        /\ CalendarNextStart \in (EngineNextStart - 1)..(EngineNextStart + 1)

====
